---- MODULE Spec2Model ----
(***************************************************************************)
(* try-and-catch: the safe invoker (tryAndCatch, tryAndCatchAsync) of      *)
(* v6.0 (src/src/index.ts) and of v4.1 (src/unnamed/part_002), and the     *)
(* retry engine tryAndCatchWithRetry of both versions.                     *)
(*                                                                         *)
(* JavaScript values are modelled as records.  An object has an identity   *)
(* (id > 0), a primitive has id 0.  A callable is modelled by its          *)
(* behaviour: what it returns, throws, or how its promise settles.         *)
(***************************************************************************)
EXTENDS Integers, Sequences, FiniteSets, TLC

\* ------------------------------------------------------------------------
\* Values
\* ------------------------------------------------------------------------

\* Values a callable can return; "null" and "undefined" are the two JS
\* nullish values.
Values == {"null", "undefined", "42", "done"}

Present(v) == v \notin {"null", "undefined"}

\* The value of an absent error field (error: null).
NoErr == [kind |-> "null", id |-> 0, msg |-> "", num |-> 0, stack |-> ""]

\* Values a callable can throw or reject with.
\*   Error      an Error instance (also a subclass instance)
\*   string     a primitive string, msg is its content
\*   number     a primitive number, num is its value
\*   object     a plain object {}
\*   errorlike  a plain object with message / stack fields, not an Error
\*   bare       an object without string conversion (Object.create(null))
ErrFail == [kind |-> "Error", id |-> 1, msg |-> "fail", num |-> 0, stack |-> "stack1"]
ErrCustom == [kind |-> "Error", id |-> 2, msg |-> "Database error", num |-> 0, stack |-> "stack2"]
StrBoom == [kind |-> "string", id |-> 0, msg |-> "boom", num |-> 0, stack |-> ""]
Num7 == [kind |-> "number", id |-> 0, msg |-> "", num |-> 7, stack |-> ""]
PlainObj == [kind |-> "object", id |-> 3, msg |-> "", num |-> 0, stack |-> ""]
ErrLike == [kind |-> "errorlike", id |-> 4, msg |-> "Custom error", num |-> 0, stack |-> "Fake stack trace"]
BareObj == [kind |-> "bare", id |-> 5, msg |-> "", num |-> 0, stack |-> ""]

Thrown == {ErrFail, ErrCustom, StrBoom, Num7, PlainObj, ErrLike, BareObj}

\* Values a cleanup callback can throw or reject with.
ErrCleanup == [kind |-> "Error", id |-> 6, msg |-> "Finally failed", num |-> 0, stack |-> "stack6"]
BareCleanup == [kind |-> "bare", id |-> 7, msg |-> "", num |-> 0, stack |-> ""]
CleanupThrown == {ErrCleanup, BareCleanup}

\* Exceptions thrown by the callbacks of the retry options.
ErrPredicate == [kind |-> "Error", id |-> 8, msg |-> "shouldRetry failed", num |-> 0, stack |-> "stack8"]
ErrDelay == [kind |-> "Error", id |-> 9, msg |-> "delay failed", num |-> 0, stack |-> "stack9"]
ErrHandler == [kind |-> "Error", id |-> 10, msg |-> "onCleanupError failed", num |-> 0, stack |-> "stack10"]

\* Identities below FirstFreshId belong to objects made by the caller.
FirstFreshId == ErrHandler.id + 1

instanceofError(x) == x.kind = "Error"

\* String(x) is defined for every value but an object whose conversion to a
\* primitive throws.
CanString(x) == x.kind # "bare"

String(x) ==
  CASE x.kind = "string" -> x.msg
    [] x.kind = "number" -> ToString(x.num)
    [] x.kind = "Error" -> x.msg
    [] OTHER -> "[object Object]"

\* new Error(message): a new object, with a stack of its own.
NewError(m, id) == [kind |-> "Error", id |-> id, msg |-> m, num |-> 0, stack |-> "new"]

\* The TypeError the engine throws when String(x) cannot convert x.
TypeErrorMsg == "Cannot convert object to primitive value"

\* ------------------------------------------------------------------------
\* error instanceof Error ? error : new Error(String(error))
\* The outcome is [threw, err]: the Error to report, or the exception the
\* expression itself throws.
\* ------------------------------------------------------------------------

\* Three conversions the code does not make, to tell the properties apart:
\* wrapping every value, keeping an error-shaped object, a fixed message.
toErrorAlwaysWrap(x, id) ==
  IF CanString(x)
    THEN [threw |-> FALSE, err |-> NewError(String(x), id)]
    ELSE [threw |-> TRUE, err |-> NewError(TypeErrorMsg, id)]

toErrorDuckTyped(x, id) ==
  IF instanceofError(x) \/ x.kind = "errorlike"
    THEN [threw |-> FALSE, err |-> x]
    ELSE IF CanString(x)
      THEN [threw |-> FALSE, err |-> NewError(String(x), id)]
      ELSE [threw |-> TRUE, err |-> NewError(TypeErrorMsg, id)]

toErrorFixedMessage(x, id) ==
  IF instanceofError(x)
    THEN [threw |-> FALSE, err |-> x]
    ELSE IF CanString(x)
      THEN [threw |-> FALSE, err |-> NewError("Unknown error", id)]
      ELSE [threw |-> TRUE, err |-> NewError(TypeErrorMsg, id)]

\* The conversion of the code.
toError(x, id) ==
  IF instanceofError(x)
    THEN [threw |-> FALSE, err |-> x]
    ELSE IF CanString(x)
      THEN [threw |-> FALSE, err |-> NewError(String(x), id)]
      ELSE [threw |-> TRUE, err |-> NewError(TypeErrorMsg, id)]

\* createContextualError(error) of v4.1, called without a context: an Error
\* instance is returned as it is; any other value becomes a new Error whose
\* stack is String(error.stack) when the value is an object with a stack.
createContextualError(x, id) ==
  IF instanceofError(x)
    THEN [threw |-> FALSE, err |-> x]
    ELSE IF CanString(x)
      THEN [threw |-> FALSE,
            err |-> [NewError(String(x), id) EXCEPT
                       !.stack = IF x.kind = "errorlike" THEN x.stack ELSE "new"]]
      ELSE [threw |-> TRUE, err |-> NewError(TypeErrorMsg, id)]

\* Did the conversion make a new object?
Allocates(x) == ~instanceofError(x)

\* ------------------------------------------------------------------------
\* Callables
\* ------------------------------------------------------------------------

\* The main callable: returns v, throws x, or returns a promise that fulfils
\* with v or rejects with x.
FnBehaviours ==
  [kind : {"return", "fulfil"}, val : Values, err : {NoErr}]
    \cup [kind : {"throw", "reject"}, val : {"null"}, err : Thrown]

\* The cleanup callback: absent, returns, throws, or returns a promise that
\* fulfils or rejects.
CleanupBehaviours ==
  [kind : {"none", "syncOk", "asyncOk"}, err : {NoErr}]
    \cup [kind : {"syncThrow", "asyncReject"}, err : CleanupThrown]

Apis == {"tryAndCatch", "tryAndCatchAsync", "tryAndCatch41"}

\* Behaviours of the callable of tryAndCatchWithRetry, one per attempt.
\* "slow" is an invocation still pending when the per-attempt timeout elapses.
RetryBehaviours ==
  {[kind |-> "fulfil", val |-> "42", err |-> NoErr],
   [kind |-> "fulfil", val |-> "null", err |-> NoErr],
   [kind |-> "return", val |-> "42", err |-> NoErr],
   [kind |-> "reject", val |-> "null", err |-> ErrFail],
   [kind |-> "reject", val |-> "null", err |-> StrBoom],
   [kind |-> "reject", val |-> "null", err |-> BareObj],
   [kind |-> "throw", val |-> "null", err |-> ErrCustom],
   [kind |-> "slow", val |-> "null", err |-> ErrFail]}

\* The same for the v4.1 engine.
RetryBehaviours41 ==
  {[kind |-> "fulfil", val |-> "42", err |-> NoErr],
   [kind |-> "return", val |-> "null", err |-> NoErr],
   [kind |-> "reject", val |-> "null", err |-> ErrFail],
   [kind |-> "reject", val |-> "null", err |-> BareObj],
   [kind |-> "throw", val |-> "null", err |-> StrBoom],
   [kind |-> "slow", val |-> "null", err |-> ErrFail]}

\* Invocations that lost the race against the timeout and are still pending,
\* at most.
MaxAbandoned == 1

NoFn == [kind |-> "none", val |-> "null", err |-> NoErr]
NoCleanup == [kind |-> "none", err |-> NoErr]

\* Largest maxRetries of the model.
MaxRetries == 2

\* const maxErrorHistory = options.maxErrorHistory ?? 10;
DefaultMaxErrorHistory == 10

\* RetryOptions.  shouldRetry: absent ("default") or a caller's predicate
\* ("custom"); delay: a number ("fixed") or a function ("fn"), "none" when
\* absent or 0; timeout: a per-attempt timeout is set; signal: an abortSignal
\* is given; handler: onCleanupError is absent, returns, or throws.
NoOpts ==
  [maxRetries |-> 0, shouldRetry |-> "default", delay |-> "none",
   timeout |-> FALSE, signal |-> FALSE, handler |-> "none",
   maxErrorHistory |-> DefaultMaxErrorHistory]

\* The per-attempt timeout of the model, in ms.
TimeoutMs == 50

\* The history caps of the model: none kept, a cap below the number of
\* attempts, the default.
HistoryCaps == {0, MaxRetries, DefaultMaxErrorHistory}

\* v4.1: every option.
Options41 ==
  [maxRetries : -1 .. MaxRetries, shouldRetry : {"default", "custom"},
   delay : {"none", "fixed", "fn"}, timeout : BOOLEAN, signal : BOOLEAN,
   handler : {"none", "ok", "throws"}, maxErrorHistory : HistoryCaps]

\* Cleanup callbacks of the retry model.
RetryCleanups ==
  {NoCleanup,
   [kind |-> "syncOk", err |-> NoErr],
   [kind |-> "asyncReject", err |-> ErrCleanup],
   [kind |-> "syncThrow", err |-> BareCleanup]}

\* v6.0: maxRetries, delay (default 1000), shouldRetry, timeout.
Options6 ==
  [maxRetries : -1 .. MaxRetries, shouldRetry : {"default", "custom"},
   delay : {"fixed", "fn"}, timeout : BOOLEAN, signal : {FALSE},
   handler : {"none"}, maxErrorHistory : {DefaultMaxErrorHistory}]

\* Outcomes: a Result record, a thrown exception / rejection, or nothing yet.
None == [tag |-> "none", result |-> "null", error |-> NoErr]
Ok(v) == [tag |-> "result", result |-> v, error |-> NoErr]
\* FailKeepsValue is a failure record that would keep a value.
FailKeepsValue(e) == [tag |-> "result", result |-> "42", error |-> e]
Fail(e) == [tag |-> "result", result |-> "null", error |-> e]
Raise(e) == [tag |-> "throw", result |-> "null", error |-> e]
Pending == [tag |-> "promise", result |-> "null", error |-> NoErr]

VARIABLES
  api,            \* which function is called
  fn,             \* behaviour of the main callable
  onFinally,      \* behaviour of the cleanup callback
  pc,             \* position of the call
  fnCalls,        \* number of invocations of the main callable
  fnSettled,      \* the main callable has returned / thrown / settled
  cleanupCalls,   \* number of invocations of the cleanup callback
  cleanupSettled, \* the cleanup callback has returned / thrown / settled
  outcome,        \* outcome determined by the main callable
  ret,            \* what the call returned synchronously
  settled,        \* how the returned promise settled
  detached,       \* a cleanup promise nobody awaits is still pending
  fin,            \* exception raised by the finally callback, if any
  warns,          \* console.warn calls
  unhandled,      \* unhandled promise rejections
  nextId,         \* identity of the next object created
  \* tryAndCatchWithRetry only
  opts,           \* the options of the call
  counter,        \* the loop variable: attempt (v6.0), attempts (v4.1)
  errors,         \* the error history
  caught,         \* the value the catch block of the attempt received
  lastActualError, \* lastActualError (v4.1)
  waits,          \* number of waits between attempts that were started
  abandoned,      \* invocations that lost the race against the timeout
  aborted,        \* abortSignal.aborted
  handlerLog,     \* calls of options.onCleanupError: <<error, original>>
  decisions,      \* what shouldRetry answered, one entry per evaluation
  resAttempts,    \* the attempts field of the returned record
  \* ConcurrencyUtils.createMutex / createSemaphore only
  maxConcurrent,  \* the argument of createSemaphore
  locked,         \* locked (mutex)
  current,        \* current (semaphore)
  queue,          \* queue: the suspended callers, oldest first
  status,         \* where each caller is with the gate
  rounds,         \* number of acquire() calls of each caller
  extra,          \* calls of a release function that was called before
  waiting,        \* the callers now suspended, in order of their acquire()
  \* ErrorTypes and the helpers of Result only
  arg,            \* the argument of the helper
  out,            \* what the helper returned or threw
  \* the debug functions of the debug-enabled variant only
  debugConfig,    \* debugConfig: the internal configuration object
  config,         \* the argument of the debug function called last
  copy,           \* the object getDebugConfig() gave to its caller
  consoleLine     \* the last line the debug functions wrote to the console

retryVars == <<opts, counter, errors, caught, lastActualError, waits,
               abandoned, aborted, handlerLog, decisions, resAttempts>>

\* The state of the gates of ConcurrencyUtils.
gateVars == <<maxConcurrent, locked, current, queue, status, rounds, extra,
              waiting>>

\* What tryAndCatch and tryAndCatchWithRetry never touch.
debugVars == <<debugConfig, config, copy, consoleLine>>

auxVars == <<gateVars, arg, out, debugVars>>

\* The state of a call of tryAndCatch or tryAndCatchWithRetry.
callVars == <<api, fn, onFinally, pc, fnCalls, fnSettled, cleanupCalls,
              cleanupSettled, outcome, ret, settled, detached, fin, warns,
              unhandled, nextId, retryVars>>

vars == <<callVars, auxVars>>

InitInvoker ==
  /\ api \in Apis
  /\ fn \in FnBehaviours
  /\ onFinally \in CleanupBehaviours
  /\ opts = NoOpts

InitRetry6 ==
  /\ api = "retry6"
  /\ fn = NoFn
  /\ onFinally = NoCleanup
  /\ opts \in Options6

\* An onCleanupError handler is looked at only when the cleanup fails with
\* a value that executeCleanup can convert.
InitRetry41 ==
  /\ api = "retry41"
  /\ fn = NoFn
  /\ onFinally \in RetryCleanups
  /\ opts \in Options41
  /\ opts.handler # "none" => onFinally.err = ErrCleanup

\* Bounds of the model of the gates: callers, acquire() calls per caller,
\* slots of a semaphore, calls of a release function already called.
MaxCallers == 3
MaxRounds == 2
MaxSlots == 2
MaxExtraReleases == 1

Callers == 1 .. MaxCallers
GateApis == {"createMutex", "createSemaphore"}

\* let locked = false; let current = 0; let queue = [];
InitGate ==
  /\ maxConcurrent \in (IF api = "createSemaphore" THEN 1 .. MaxSlots ELSE {0})
  /\ locked = FALSE
  /\ current = 0
  /\ queue = <<>>
  /\ status = [c \in Callers |-> "idle"]
  /\ rounds = [c \in Callers |-> 0]
  /\ extra = 0
  /\ waiting = <<>>

\* Messages of errors, word by word.
Messages ==
  { <<"Network", "request", "failed">>, <<"Request", "timed", "out">>,
    <<"Connection", "failed">>, <<"Invalid", "input", "format">>,
    <<"rate", "limit", "exceeded">>, <<"Internal", "server", "error">>,
    <<"Operation", "timeout">>, <<"fetch", "failed">>, <<"network", "down">>,
    <<>> }

\* The errors given to ErrorTypes: name, message, code and status
\* ("none", 0: the property is absent).
ErrorInfos ==
  [name : {"Error", "NetworkError"},
   message : Messages,
   code : {"none", "NETWORK_ERROR", "ECONNREFUSED", "ETIMEDOUT"},
   status : {0, 404, 503}]

\* The Result records given to isSuccess, isError and unwrap.
Results ==
  {Ok(v) : v \in Values} \cup {Fail(e) : e \in {ErrFail, ErrCustom, ErrCleanup}}

HelperApis == {"ErrorTypes", "ErrorTypes41", "helpers"}

NoArg == None

\* Nothing returned yet: the three answers of ErrorTypes, those of the type
\* guards, and what unwrap returned or threw.
NoOut ==
  [network |-> FALSE, timeout |-> FALSE, retryable |-> FALSE,
   isSuccess |-> FALSE, isError |-> FALSE, unwrap |-> None,
   defaultValue |-> "fallback", unwrapOr |-> None]

\* The second argument of unwrapOr.
Defaults == {"fallback", "null", "42"}

InitHelper ==
  /\ arg \in (CASE api \in {"ErrorTypes", "ErrorTypes41"} -> ErrorInfos
                [] api = "helpers" -> Results
                [] OTHER -> {NoArg})
  /\ out \in (IF api = "helpers"
                THEN {[NoOut EXCEPT !.defaultValue = d] : d \in Defaults}
                ELSE {NoOut})

\* let debugConfig = { enabled: false, logSuccess: true, logErrors: true,
\*                     logArgs: false, logTiming: false,
\*                     prefix: "[try-and-catch]" }
DefaultDebugConfig ==
  [enabled |-> FALSE, logSuccess |-> TRUE, logErrors |-> TRUE,
   logArgs |-> FALSE, logTiming |-> FALSE, prefix |-> "[try-and-catch]"]

\* A Partial<DebugConfig>: the fields it has and their values.  The fields
\* a caller sets here are enabled, logTiming and prefix.
PartialFields == {"enabled", "logTiming", "prefix"}
Prefixes == {"[try-and-catch]", "[CUSTOM]"}
DebugConfigs ==
  [enabled : BOOLEAN, logSuccess : {TRUE}, logErrors : {TRUE},
   logArgs : {FALSE}, logTiming : BOOLEAN, prefix : Prefixes]
Partials ==
  {c \in [given : SUBSET PartialFields, val : DebugConfigs] :
     \A f \in PartialFields \ c.given : c.val[f] = DefaultDebugConfig[f]}
NoConfig == [given |-> {}, val |-> DefaultDebugConfig]

\* An object a caller holds: "fresh" is an object of its own, "internal"
\* the object the variable debugConfig refers to.
NoCopy == [ref |-> "none", val |-> DefaultDebugConfig]

InitDebugVars ==
  /\ debugConfig = DefaultDebugConfig
  /\ config = NoConfig
  /\ copy = NoCopy
  /\ consoleLine = ""

InitRest ==
  /\ InitGate
  /\ InitHelper
  /\ InitDebugVars
  /\ pc = "start"
  /\ fnCalls = 0
  /\ fnSettled = FALSE
  /\ cleanupCalls = 0
  /\ cleanupSettled = FALSE
  /\ outcome = None
  /\ ret = None
  /\ settled = None
  /\ detached = FALSE
  /\ fin = None
  /\ warns = <<>>
  /\ unhandled = {}
  /\ nextId = FirstFreshId
  /\ counter = 0
  /\ errors = <<>>
  /\ caught = NoErr
  /\ lastActualError = NoErr
  /\ waits = 0
  /\ abandoned = 0
  /\ aborted \in (IF opts.signal THEN BOOLEAN ELSE {FALSE})
  /\ handlerLog = <<>>
  /\ decisions = <<>>
  /\ resAttempts = 0

Init == (InitInvoker \/ InitRetry6) /\ InitRest

IsAsyncCleanup == onFinally.kind \in {"asyncOk", "asyncReject"}

\* console.warn("Cleanup failed:", e)
CleanupFailed(e) == [text |-> "Cleanup failed:", err |-> e, ctx |-> ""]

\* ------------------------------------------------------------------------
\* tryAndCatch, v6.0
\* ------------------------------------------------------------------------

\* const result = fn();  and the test  result instanceof Promise
TC_Invoke ==
  /\ api = "tryAndCatch"
  /\ pc = "start"
  /\ fnCalls' = fnCalls + 1
  /\ CASE fn.kind = "return" ->
            /\ fnSettled' = TRUE
            /\ outcome' = Ok(fn.val)
            /\ pc' = "syncCleanup"
            /\ ret' = ret
       [] fn.kind = "throw" ->
            /\ fnSettled' = TRUE
            /\ outcome' = outcome
            /\ pc' = "catch"
            /\ ret' = ret
       [] OTHER ->
            /\ fnSettled' = FALSE
            /\ outcome' = outcome
            /\ pc' = "awaitFn"
            /\ ret' = Pending
  /\ UNCHANGED <<api, fn, onFinally, fin, cleanupCalls, cleanupSettled, settled,
                 detached, warns, unhandled, nextId>>
  /\ UNCHANGED retryVars
  /\ UNCHANGED auxVars

\* catch (error) { const finalError = ... }: when the conversion throws, the
\* exception leaves tryAndCatch before the cleanup is reached.
TC_Catch ==
  /\ api = "tryAndCatch"
  /\ pc = "catch"
  /\ LET n == toError(fn.err, nextId) IN
       /\ nextId' = IF Allocates(fn.err) THEN nextId + 1 ELSE nextId
       /\ IF n.threw
            THEN /\ ret' = Raise(n.err)
                 /\ outcome' = outcome
                 /\ pc' = "done"
            ELSE /\ ret' = ret
                 /\ outcome' = Fail(n.err)
                 /\ pc' = "syncCleanup"
  /\ UNCHANGED <<api, fn, onFinally, fin, fnCalls, fnSettled, cleanupCalls,
                 cleanupSettled, settled, detached, warns, unhandled>>
  /\ UNCHANGED retryVars
  /\ UNCHANGED auxVars

\* The synchronous cleanup as it would be without its try/catch: what
\* onFinally throws leaves tryAndCatch.
TC_SyncCleanupEscapes ==
  /\ api = "tryAndCatch"
  /\ pc = "syncCleanup"
  /\ cleanupCalls' = IF onFinally.kind = "none" THEN cleanupCalls ELSE cleanupCalls + 1
  /\ cleanupSettled' = (onFinally.kind \in {"syncOk", "syncThrow"})
  /\ detached' = IsAsyncCleanup
  /\ IF onFinally.kind = "syncThrow"
       THEN /\ ret' = Raise(onFinally.err)
            /\ pc' = "done"
       ELSE /\ ret' = ret
            /\ pc' = "return"
  /\ UNCHANGED <<api, fn, onFinally, fin, fnCalls, fnSettled, outcome,
                 settled, warns, unhandled, nextId>>
  /\ UNCHANGED retryVars
  /\ UNCHANGED auxVars

\* if (onFinally) { try { onFinally(); } catch (e) { console.warn(...) } }
\* The value onFinally returns is dropped: a promise it returns is not
\* awaited.
TC_SyncCleanup ==
  /\ api = "tryAndCatch"
  /\ pc = "syncCleanup"
  /\ cleanupCalls' = IF onFinally.kind = "none" THEN cleanupCalls ELSE cleanupCalls + 1
  /\ cleanupSettled' = (onFinally.kind \in {"syncOk", "syncThrow"})
  /\ detached' = IsAsyncCleanup
  /\ warns' = IF onFinally.kind = "syncThrow"
                THEN Append(warns, CleanupFailed(onFinally.err))
                ELSE warns
  /\ pc' = "return"
  /\ UNCHANGED <<api, fn, onFinally, fin, fnCalls, fnSettled, outcome, ret,
                 settled, unhandled, nextId>>
  /\ UNCHANGED retryVars
  /\ UNCHANGED auxVars

\* The return as it would be if the call handed out a promise while the
\* promise of the cleanup is pending.
TC_ReturnAwaitsCleanup ==
  /\ api = "tryAndCatch"
  /\ pc = "return"
  /\ ret' = IF detached THEN Pending ELSE outcome
  /\ pc' = IF detached THEN "detached" ELSE "done"
  /\ UNCHANGED <<api, fn, onFinally, fin, fnCalls, fnSettled, cleanupCalls,
                 cleanupSettled, outcome, settled, detached, warns, unhandled,
                 nextId>>
  /\ UNCHANGED retryVars
  /\ UNCHANGED auxVars

\* return { result, error: null };  /  return { result: null, error: finalError };
TC_Return ==
  /\ api = "tryAndCatch"
  /\ pc = "return"
  /\ ret' = outcome
  /\ pc' = IF detached THEN "detached" ELSE "done"
  /\ UNCHANGED <<api, fn, onFinally, fin, fnCalls, fnSettled, cleanupCalls,
                 cleanupSettled, outcome, settled, detached, warns, unhandled,
                 nextId>>
  /\ UNCHANGED retryVars
  /\ UNCHANGED auxVars

\* The promise a cleanup returned on the synchronous path settles after the
\* call has returned; nothing handles its rejection.
TC_DetachedSettle ==
  /\ api = "tryAndCatch"
  /\ pc = "detached"
  /\ cleanupSettled' = TRUE
  /\ detached' = FALSE
  /\ unhandled' = IF onFinally.kind = "asyncReject"
                    THEN unhandled \cup {onFinally.err}
                    ELSE unhandled
  /\ pc' = "done"
  /\ UNCHANGED <<api, fn, onFinally, fin, fnCalls, fnSettled, cleanupCalls,
                 outcome, ret, settled, warns, nextId>>
  /\ UNCHANGED retryVars
  /\ UNCHANGED auxVars

\* The promise returned by fn settles.
TC_FnSettle ==
  /\ api = "tryAndCatch"
  /\ pc = "awaitFn"
  /\ fnSettled' = TRUE
  /\ pc' = "handlers"
  /\ UNCHANGED <<api, fn, onFinally, fin, fnCalls, cleanupCalls, cleanupSettled,
                 outcome, ret, settled, detached, warns, unhandled, nextId>>
  /\ UNCHANGED retryVars
  /\ UNCHANGED auxVars

\* .then((result) => ({ result, error: null }))
\* .catch((error) => ({ result: null, error: ... }))
\* A handler that throws rejects the chained promise.
TC_Handlers ==
  /\ api = "tryAndCatch"
  /\ pc = "handlers"
  /\ IF fn.kind = "fulfil"
       THEN /\ outcome' = Ok(fn.val)
            /\ nextId' = nextId
       ELSE LET n == toError(fn.err, nextId) IN
              /\ outcome' = IF n.threw THEN Raise(n.err) ELSE Fail(n.err)
              /\ nextId' = IF Allocates(fn.err) THEN nextId + 1 ELSE nextId
  /\ pc' = "finally"
  /\ UNCHANGED <<api, fn, onFinally, fin, fnCalls, fnSettled, cleanupCalls,
                 cleanupSettled, ret, settled, detached, warns, unhandled>>
  /\ UNCHANGED retryVars
  /\ UNCHANGED auxVars

\* The finally callback as it would be without the await: the chain goes on
\* while the promise of onFinally is pending.
TC_FinallyNoAwait ==
  /\ api = "tryAndCatch"
  /\ pc = "finally"
  /\ cleanupCalls' = IF onFinally.kind = "none" THEN cleanupCalls ELSE cleanupCalls + 1
  /\ cleanupSettled' = (onFinally.kind \in {"syncOk", "syncThrow"})
  /\ warns' = IF onFinally.kind = "syncThrow"
                THEN Append(warns, CleanupFailed(onFinally.err))
                ELSE warns
  /\ pc' = "resolve"
  /\ UNCHANGED <<api, fn, onFinally, fin, fnCalls, fnSettled, outcome, ret,
                 settled, detached, unhandled, nextId>>
  /\ UNCHANGED retryVars
  /\ UNCHANGED auxVars

\* .finally(async () => { if (onFinally) { try { await onFinally(); } ... } })
\* up to the await.
TC_Finally ==
  /\ api = "tryAndCatch"
  /\ pc = "finally"
  /\ cleanupCalls' = IF onFinally.kind = "none" THEN cleanupCalls ELSE cleanupCalls + 1
  /\ cleanupSettled' = (onFinally.kind \in {"syncOk", "syncThrow"})
  /\ warns' = IF onFinally.kind = "syncThrow"
                THEN Append(warns, CleanupFailed(onFinally.err))
                ELSE warns
  /\ pc' = IF IsAsyncCleanup THEN "awaitCleanup" ELSE "resolve"
  /\ UNCHANGED <<api, fn, onFinally, fin, fnCalls, fnSettled, outcome, ret,
                 settled, detached, unhandled, nextId>>
  /\ UNCHANGED retryVars
  /\ UNCHANGED auxVars

\* await onFinally() resumes; a rejection is caught and warned about.
TC_CleanupSettle ==
  /\ api = "tryAndCatch"
  /\ pc = "awaitCleanup"
  /\ cleanupSettled' = TRUE
  /\ warns' = IF onFinally.kind = "asyncReject"
                THEN Append(warns, CleanupFailed(onFinally.err))
                ELSE warns
  /\ pc' = "resolve"
  /\ UNCHANGED <<api, fn, onFinally, fin, fnCalls, fnSettled, cleanupCalls,
                 outcome, ret, settled, detached, unhandled, nextId>>
  /\ UNCHANGED retryVars
  /\ UNCHANGED auxVars

\* The promise of .finally settles as the promise before it did.
TC_Resolve ==
  /\ api = "tryAndCatch"
  /\ pc = "resolve"
  /\ settled' = outcome
  /\ pc' = "done"
  /\ UNCHANGED <<api, fn, onFinally, fin, fnCalls, fnSettled, cleanupCalls,
                 cleanupSettled, outcome, ret, detached, warns, unhandled,
                 nextId>>
  /\ UNCHANGED retryVars
  /\ UNCHANGED auxVars

\* ------------------------------------------------------------------------
\* tryAndCatchAsync, v6.0
\* ------------------------------------------------------------------------

\* try { const result = await fn(); ... }: fn is called; a synchronous throw
\* goes to the catch block, anything else is awaited.
TCA_Invoke ==
  /\ api = "tryAndCatchAsync"
  /\ pc = "start"
  /\ fnCalls' = fnCalls + 1
  /\ ret' = Pending
  /\ fnSettled' = (fn.kind \in {"return", "throw"})
  /\ pc' = IF fn.kind = "throw" THEN "catch" ELSE "awaitFn"
  /\ UNCHANGED <<api, fn, onFinally, fin, cleanupCalls, cleanupSettled,
                 outcome, settled, detached, warns, unhandled, nextId>>
  /\ UNCHANGED retryVars
  /\ UNCHANGED auxVars

\* await fn() resumes:  return { result, error: null }  or the catch block.
TCA_Resume ==
  /\ api = "tryAndCatchAsync"
  /\ pc = "awaitFn"
  /\ fnSettled' = TRUE
  /\ IF fn.kind = "reject"
       THEN /\ outcome' = outcome
            /\ pc' = "catch"
       ELSE /\ outcome' = Ok(fn.val)
            /\ pc' = "finally"
  /\ UNCHANGED <<api, fn, onFinally, fin, fnCalls, cleanupCalls,
                 cleanupSettled, ret, settled, detached, warns, unhandled,
                 nextId>>
  /\ UNCHANGED retryVars
  /\ UNCHANGED auxVars

\* catch (error) { return { result: null, error: ... }; }
TCA_Catch ==
  /\ api = "tryAndCatchAsync"
  /\ pc = "catch"
  /\ LET n == toError(fn.err, nextId) IN
       /\ outcome' = IF n.threw THEN Raise(n.err) ELSE Fail(n.err)
       /\ nextId' = IF Allocates(fn.err) THEN nextId + 1 ELSE nextId
  /\ pc' = "finally"
  /\ UNCHANGED <<api, fn, onFinally, fin, fnCalls, fnSettled, cleanupCalls,
                 cleanupSettled, ret, settled, detached, warns, unhandled>>
  /\ UNCHANGED retryVars
  /\ UNCHANGED auxVars

\* The finally block as it would be without the await: the promise of the
\* cleanup is left alone.
TCA_FinallyNoAwait ==
  /\ api = "tryAndCatchAsync"
  /\ pc = "finally"
  /\ cleanupCalls' = IF onFinally.kind = "none" THEN cleanupCalls ELSE cleanupCalls + 1
  /\ cleanupSettled' = (onFinally.kind \in {"syncOk", "syncThrow"})
  /\ warns' = IF onFinally.kind = "syncThrow"
                THEN Append(warns, CleanupFailed(onFinally.err))
                ELSE warns
  /\ pc' = "resolve"
  /\ UNCHANGED <<api, fn, onFinally, fin, fnCalls, fnSettled, outcome, ret,
                 settled, detached, unhandled, nextId>>
  /\ UNCHANGED retryVars
  /\ UNCHANGED auxVars

\* finally { if (onFinally) { try { await onFinally(); } catch (e) { ... } } }
\* up to the await.
TCA_Finally ==
  /\ api = "tryAndCatchAsync"
  /\ pc = "finally"
  /\ cleanupCalls' = IF onFinally.kind = "none" THEN cleanupCalls ELSE cleanupCalls + 1
  /\ cleanupSettled' = (onFinally.kind \in {"syncOk", "syncThrow"})
  /\ warns' = IF onFinally.kind = "syncThrow"
                THEN Append(warns, CleanupFailed(onFinally.err))
                ELSE warns
  /\ pc' = IF IsAsyncCleanup THEN "awaitCleanup" ELSE "resolve"
  /\ UNCHANGED <<api, fn, onFinally, fin, fnCalls, fnSettled, outcome, ret,
                 settled, detached, unhandled, nextId>>
  /\ UNCHANGED retryVars
  /\ UNCHANGED auxVars

\* await onFinally() resumes; a rejection is caught and warned about.
TCA_CleanupSettle ==
  /\ api = "tryAndCatchAsync"
  /\ pc = "awaitCleanup"
  /\ cleanupSettled' = TRUE
  /\ warns' = IF onFinally.kind = "asyncReject"
                THEN Append(warns, CleanupFailed(onFinally.err))
                ELSE warns
  /\ pc' = "resolve"
  /\ UNCHANGED <<api, fn, onFinally, fin, fnCalls, fnSettled, cleanupCalls,
                 outcome, ret, settled, detached, unhandled, nextId>>
  /\ UNCHANGED retryVars
  /\ UNCHANGED auxVars

\* The promise of the async function settles with what try / catch produced.
TCA_Resolve ==
  /\ api = "tryAndCatchAsync"
  /\ pc = "resolve"
  /\ settled' = outcome
  /\ pc' = "done"
  /\ UNCHANGED <<api, fn, onFinally, fin, fnCalls, fnSettled, cleanupCalls,
                 cleanupSettled, outcome, ret, detached, warns, unhandled,
                 nextId>>
  /\ UNCHANGED retryVars
  /\ UNCHANGED auxVars

tryAndCatchAsync ==
  \/ TCA_Invoke
  \/ TCA_Resume
  \/ TCA_Catch
  \/ TCA_Finally
  \/ TCA_CleanupSettle
  \/ TCA_Resolve

\* ------------------------------------------------------------------------
\* tryAndCatch, v4.1, with executeCleanup
\* ------------------------------------------------------------------------

\* console.warn("tryAndCatch: finally callback threw an error:",
\*              finalCleanupError, originalErrorContext)
FinallyThrew(e, orig) ==
  [text |-> "tryAndCatch: finally callback threw an error:", err |-> e,
   ctx |-> IF orig = NoErr THEN "" ELSE "Original error: " \o orig.msg]

\* The catch block of executeCleanup, for a cleanup that failed with e and no
\* custom handler: the failure is converted and warned about; when the
\* conversion throws, the promise of executeCleanup rejects.
executeCleanupCatch(e, orig, id) ==
  LET n == toError(e, id) IN
    [threw |-> n.threw, err |-> n.err, warn |-> FinallyThrew(n.err, orig)]

\* The original error tryAndCatch hands to executeCleanup.
OriginalError == IF outcome.tag = "result" THEN outcome.error ELSE NoErr

\* const result = fn();  and the test  result instanceof Promise
TC41_Invoke ==
  /\ api = "tryAndCatch41"
  /\ pc = "start"
  /\ fnCalls' = fnCalls + 1
  /\ CASE fn.kind = "return" ->
            /\ fnSettled' = TRUE
            /\ outcome' = Ok(fn.val)
            /\ pc' = "syncCleanup"
            /\ ret' = ret
       [] fn.kind = "throw" ->
            /\ fnSettled' = TRUE
            /\ outcome' = outcome
            /\ pc' = "catch"
            /\ ret' = ret
       [] OTHER ->
            /\ fnSettled' = FALSE
            /\ outcome' = outcome
            /\ pc' = "awaitFn"
            /\ ret' = Pending
  /\ UNCHANGED <<api, fn, onFinally, fin, cleanupCalls, cleanupSettled,
                 settled, detached, warns, unhandled, nextId>>
  /\ UNCHANGED retryVars
  /\ UNCHANGED auxVars

\* catch (error) { const contextualError = createContextualError(error); ... }
TC41_Catch ==
  /\ api = "tryAndCatch41"
  /\ pc = "catch"
  /\ LET n == createContextualError(fn.err, nextId) IN
       /\ nextId' = IF Allocates(fn.err) THEN nextId + 1 ELSE nextId
       /\ IF n.threw
            THEN /\ ret' = Raise(n.err)
                 /\ outcome' = outcome
                 /\ pc' = "done"
            ELSE /\ ret' = ret
                 /\ outcome' = Fail(n.err)
                 /\ pc' = "syncCleanup"
  /\ UNCHANGED <<api, fn, onFinally, fin, fnCalls, fnSettled, cleanupCalls,
                 cleanupSettled, settled, detached, warns, unhandled>>
  /\ UNCHANGED retryVars
  /\ UNCHANGED auxVars

\* executeCleanup(onFinally, ...) without await: onFinally is called at once.
\* When it throws, the catch block of executeCleanup runs at once too; the
\* promise of executeCleanup is dropped, so its rejection is unhandled.
TC41_SyncCleanup ==
  /\ api = "tryAndCatch41"
  /\ pc = "syncCleanup"
  /\ cleanupCalls' = IF onFinally.kind = "none" THEN cleanupCalls ELSE cleanupCalls + 1
  /\ cleanupSettled' = (onFinally.kind \in {"syncOk", "syncThrow"})
  /\ detached' = IsAsyncCleanup
  /\ IF onFinally.kind = "syncThrow"
       THEN LET c == executeCleanupCatch(onFinally.err, OriginalError, nextId) IN
              /\ nextId' = IF Allocates(onFinally.err) THEN nextId + 1 ELSE nextId
              /\ warns' = IF c.threw THEN warns ELSE Append(warns, c.warn)
              /\ unhandled' = IF c.threw THEN unhandled \cup {c.err} ELSE unhandled
       ELSE UNCHANGED <<nextId, warns, unhandled>>
  /\ pc' = "return"
  /\ UNCHANGED <<api, fn, onFinally, fin, fnCalls, fnSettled, outcome, ret,
                 settled>>
  /\ UNCHANGED retryVars
  /\ UNCHANGED auxVars

\* return { result, error: null };  /  return { result: null, error: contextualError };
TC41_Return ==
  /\ api = "tryAndCatch41"
  /\ pc = "return"
  /\ ret' = outcome
  /\ pc' = IF detached THEN "detached" ELSE "done"
  /\ UNCHANGED <<api, fn, onFinally, fin, fnCalls, fnSettled, cleanupCalls,
                 cleanupSettled, outcome, settled, detached, warns, unhandled,
                 nextId>>
  /\ UNCHANGED retryVars
  /\ UNCHANGED auxVars

\* await onFinally() inside the dropped executeCleanup resumes after the call
\* has returned.
TC41_DetachedSettle ==
  /\ api = "tryAndCatch41"
  /\ pc = "detached"
  /\ cleanupSettled' = TRUE
  /\ detached' = FALSE
  /\ IF onFinally.kind = "asyncReject"
       THEN LET c == executeCleanupCatch(onFinally.err, OriginalError, nextId) IN
              /\ nextId' = IF Allocates(onFinally.err) THEN nextId + 1 ELSE nextId
              /\ warns' = IF c.threw THEN warns ELSE Append(warns, c.warn)
              /\ unhandled' = IF c.threw THEN unhandled \cup {c.err} ELSE unhandled
       ELSE UNCHANGED <<nextId, warns, unhandled>>
  /\ pc' = "done"
  /\ UNCHANGED <<api, fn, onFinally, fin, fnCalls, fnSettled, cleanupCalls,
                 outcome, ret, settled>>
  /\ UNCHANGED retryVars
  /\ UNCHANGED auxVars

\* The promise returned by fn settles.
TC41_FnSettle ==
  /\ api = "tryAndCatch41"
  /\ pc = "awaitFn"
  /\ fnSettled' = TRUE
  /\ pc' = "handlers"
  /\ UNCHANGED <<api, fn, onFinally, fin, fnCalls, cleanupCalls,
                 cleanupSettled, outcome, ret, settled, detached, warns,
                 unhandled, nextId>>
  /\ UNCHANGED retryVars
  /\ UNCHANGED auxVars

\* .then((result) => ({ result, error: null }))
\* .catch((error) => ({ result: null, error: createContextualError(error) }))
TC41_Handlers ==
  /\ api = "tryAndCatch41"
  /\ pc = "handlers"
  /\ IF fn.kind = "fulfil"
       THEN /\ outcome' = Ok(fn.val)
            /\ nextId' = nextId
       ELSE LET n == createContextualError(fn.err, nextId) IN
              /\ outcome' = IF n.threw THEN Raise(n.err) ELSE Fail(n.err)
              /\ nextId' = IF Allocates(fn.err) THEN nextId + 1 ELSE nextId
  /\ pc' = "finally"
  /\ UNCHANGED <<api, fn, onFinally, fin, fnCalls, fnSettled, cleanupCalls,
                 cleanupSettled, ret, settled, detached, warns, unhandled>>
  /\ UNCHANGED retryVars
  /\ UNCHANGED auxVars

\* .finally(async () => { await executeCleanup(onFinally); }) up to the await
\* inside executeCleanup.  No original error is passed.  An exception in the
\* catch block of executeCleanup rejects the promise of the finally callback.
TC41_Finally ==
  /\ api = "tryAndCatch41"
  /\ pc = "finally"
  /\ cleanupCalls' = IF onFinally.kind = "none" THEN cleanupCalls ELSE cleanupCalls + 1
  /\ cleanupSettled' = (onFinally.kind \in {"syncOk", "syncThrow"})
  /\ IF onFinally.kind = "syncThrow"
       THEN LET c == executeCleanupCatch(onFinally.err, NoErr, nextId) IN
              /\ nextId' = IF Allocates(onFinally.err) THEN nextId + 1 ELSE nextId
              /\ warns' = IF c.threw THEN warns ELSE Append(warns, c.warn)
              /\ fin' = IF c.threw THEN Raise(c.err) ELSE fin
       ELSE UNCHANGED <<nextId, warns, fin>>
  /\ pc' = IF IsAsyncCleanup THEN "awaitCleanup" ELSE "resolve"
  /\ UNCHANGED <<api, fn, onFinally, fnCalls, fnSettled, outcome, ret,
                 settled, detached, unhandled>>
  /\ UNCHANGED retryVars
  /\ UNCHANGED auxVars

\* await onFinally() inside executeCleanup resumes.
TC41_CleanupSettle ==
  /\ api = "tryAndCatch41"
  /\ pc = "awaitCleanup"
  /\ cleanupSettled' = TRUE
  /\ IF onFinally.kind = "asyncReject"
       THEN LET c == executeCleanupCatch(onFinally.err, NoErr, nextId) IN
              /\ nextId' = IF Allocates(onFinally.err) THEN nextId + 1 ELSE nextId
              /\ warns' = IF c.threw THEN warns ELSE Append(warns, c.warn)
              /\ fin' = IF c.threw THEN Raise(c.err) ELSE fin
       ELSE UNCHANGED <<nextId, warns, fin>>
  /\ pc' = "resolve"
  /\ UNCHANGED <<api, fn, onFinally, fnCalls, fnSettled, cleanupCalls,
                 outcome, ret, settled, detached, unhandled>>
  /\ UNCHANGED retryVars
  /\ UNCHANGED auxVars

\* The promise of .finally settles as the promise before it did, unless the
\* finally callback rejected: then it rejects with that reason.
TC41_Resolve ==
  /\ api = "tryAndCatch41"
  /\ pc = "resolve"
  /\ settled' = IF fin.tag = "throw" THEN fin ELSE outcome
  /\ pc' = "done"
  /\ UNCHANGED <<api, fn, onFinally, fin, fnCalls, fnSettled, cleanupCalls,
                 cleanupSettled, outcome, ret, detached, warns, unhandled,
                 nextId>>
  /\ UNCHANGED retryVars
  /\ UNCHANGED auxVars

tryAndCatch41 ==
  \/ TC41_Invoke
  \/ TC41_Catch
  \/ TC41_SyncCleanup
  \/ TC41_Return
  \/ TC41_DetachedSettle
  \/ TC41_FnSettle
  \/ TC41_Handlers
  \/ TC41_Finally
  \/ TC41_CleanupSettle
  \/ TC41_Resolve

tryAndCatch ==
  \/ TC_Invoke
  \/ TC_Catch
  \/ TC_SyncCleanup
  \/ TC_Return
  \/ TC_DetachedSettle
  \/ TC_FnSettle
  \/ TC_Handlers
  \/ TC_Finally
  \/ TC_CleanupSettle
  \/ TC_Resolve

\* ------------------------------------------------------------------------
\* tryAndCatchWithRetry, v6.0
\* ------------------------------------------------------------------------

invokerOnly == <<onFinally, cleanupCalls, cleanupSettled, outcome, detached,
                 fin, warns, unhandled>>

\* What shouldRetry(err) can do: the default predicate returns true, a
\* caller's predicate returns true or false, or throws.
ShouldRetryOutcomes ==
  IF opts.shouldRetry = "default" THEN {"true"} ELSE {"true", "false", "throw"}

\* What computing the delay can do: a number is there, a function returns or
\* throws.
DelayOutcomes == IF opts.delay = "fn" THEN {"ok", "throw"} ELSE {"ok"}

\* The async function is called: the options are read, the promise is made.
R6_Start ==
  /\ api = "retry6"
  /\ pc = "start"
  /\ ret' = Pending
  /\ pc' = "loop"
  /\ UNCHANGED <<api, fn, fnCalls, fnSettled, settled, nextId, invokerOnly>>
  /\ UNCHANGED retryVars
  /\ UNCHANGED auxVars

\* The loop as it would be with attempt < maxRetries: one attempt short.
R6_LoopOneShort ==
  /\ api = "retry6"
  /\ pc = "loop"
  /\ IF counter < opts.maxRetries
       THEN /\ pc' = "call"
            /\ UNCHANGED <<settled, nextId>>
       ELSE /\ settled' = Raise(NewError("Retry logic error", nextId))
            /\ nextId' = nextId + 1
            /\ pc' = "done"
  /\ UNCHANGED <<api, fn, fnCalls, fnSettled, ret, invokerOnly>>
  /\ UNCHANGED retryVars
  /\ UNCHANGED auxVars

\* for (let attempt = 0; attempt <= maxRetries; ...) and, past the loop,
\* throw new Error("Retry logic error")
R6_Loop ==
  /\ api = "retry6"
  /\ pc = "loop"
  /\ IF counter <= opts.maxRetries
       THEN /\ pc' = "call"
            /\ UNCHANGED <<settled, nextId>>
       ELSE /\ settled' = Raise(NewError("Retry logic error", nextId))
            /\ nextId' = nextId + 1
            /\ pc' = "done"
  /\ UNCHANGED <<api, fn, fnCalls, fnSettled, ret, invokerOnly>>
  /\ UNCHANGED retryVars
  /\ UNCHANGED auxVars

\* fn() is called, alone or inside Promise.race([fn(), timer]).
R6_Call ==
  /\ api = "retry6"
  /\ pc = "call"
  /\ \E b \in RetryBehaviours :
       /\ b.kind = "slow" => opts.timeout
       /\ fn' = b
       /\ fnSettled' = (b.kind \in {"return", "throw"})
       /\ IF b.kind = "throw"
            THEN /\ caught' = b.err
                 /\ pc' = "catch"
            ELSE /\ caught' = caught
                 /\ pc' = "awaitFn"
  /\ fnCalls' = fnCalls + 1
  /\ UNCHANGED <<api, ret, settled, nextId, invokerOnly>>
  /\ UNCHANGED <<opts, counter, errors, lastActualError, waits, abandoned,
                 aborted, handlerLog, decisions, resAttempts>>
  /\ UNCHANGED auxVars

\* The await of the attempt resumes: with the value (the success record is
\* returned), with the rejection, or with the rejection of the timer, which
\* leaves the invocation pending.
R6_Await ==
  /\ api = "retry6"
  /\ pc = "awaitFn"
  /\ CASE fn.kind \in {"fulfil", "return"} ->
            /\ settled' = Ok(fn.val)
            /\ resAttempts' = counter + 1
            /\ fnSettled' = TRUE
            /\ pc' = "done"
            /\ UNCHANGED <<caught, nextId, abandoned>>
       [] fn.kind = "reject" ->
            /\ caught' = fn.err
            /\ fnSettled' = TRUE
            /\ pc' = "catch"
            /\ UNCHANGED <<settled, resAttempts, nextId, abandoned>>
       [] OTHER ->
            /\ caught' = NewError("Operation timeout", nextId)
            /\ nextId' = nextId + 1
            /\ abandoned' = abandoned + 1
            /\ pc' = "catch"
            /\ UNCHANGED <<settled, resAttempts, fnSettled>>
  /\ UNCHANGED <<api, fn, fnCalls, ret, invokerOnly>>
  /\ UNCHANGED <<opts, counter, errors, lastActualError, waits, aborted,
                 handlerLog, decisions>>
  /\ UNCHANGED auxVars

\* The catch block as it would be if the history kept the latest error
\* only.
R6_CatchKeepsLast ==
  /\ api = "retry6"
  /\ pc = "catch"
  /\ LET n == toError(caught, nextId) IN
       /\ nextId' = IF Allocates(caught) THEN nextId + 1 ELSE nextId
       /\ IF n.threw
            THEN /\ settled' = Raise(n.err)
                 /\ pc' = "done"
                 /\ UNCHANGED <<errors, caught>>
            ELSE /\ errors' = <<n.err>>
                 /\ caught' = n.err
                 /\ pc' = "decide"
                 /\ settled' = settled
  /\ UNCHANGED <<api, fn, fnCalls, fnSettled, ret, invokerOnly>>
  /\ UNCHANGED <<opts, counter, lastActualError, waits, abandoned, aborted,
                 handlerLog, decisions, resAttempts>>
  /\ UNCHANGED auxVars

\* catch (error) { const err = ...; errors.push(err);
R6_Catch ==
  /\ api = "retry6"
  /\ pc = "catch"
  /\ LET n == toError(caught, nextId) IN
       /\ nextId' = IF Allocates(caught) THEN nextId + 1 ELSE nextId
       /\ IF n.threw
            THEN /\ settled' = Raise(n.err)
                 /\ pc' = "done"
                 /\ UNCHANGED <<errors, caught>>
            ELSE /\ errors' = Append(errors, n.err)
                 /\ caught' = n.err
                 /\ pc' = "decide"
                 /\ settled' = settled
  /\ UNCHANGED <<api, fn, fnCalls, fnSettled, ret, invokerOnly>>
  /\ UNCHANGED <<opts, counter, lastActualError, waits, abandoned, aborted,
                 handlerLog, decisions, resAttempts>>
  /\ UNCHANGED auxVars

\* Two failure records v6.0 does not make: one that reports every allowed
\* attempt as made, one that carries the first error of the history.
R6_ReturnFailureAllAttempts ==
  /\ settled' = Fail(caught)
  /\ resAttempts' = opts.maxRetries + 1
  /\ pc' = "done"

R6_ReturnFailureFirstError ==
  /\ settled' = Fail(errors[1])
  /\ resAttempts' = counter + 1
  /\ pc' = "done"

\* The failure record of v6.0.
R6_ReturnFailure ==
  /\ settled' = Fail(caught)
  /\ resAttempts' = counter + 1
  /\ pc' = "done"

\* The decision as it would be with attempt <= maxRetries: a wait follows
\* the final attempt too.
R6_DecideWaitsAfterLast ==
  /\ api = "retry6"
  /\ pc = "decide"
  /\ IF counter <= opts.maxRetries
       THEN \E d \in ShouldRetryOutcomes :
              /\ decisions' = Append(decisions, d)
              /\ CASE d = "throw" ->
                        /\ settled' = Raise(ErrPredicate)
                        /\ pc' = "done"
                        /\ UNCHANGED <<resAttempts, waits>>
                   [] d = "false" ->
                        /\ R6_ReturnFailure
                        /\ waits' = waits
                   [] OTHER ->
                        \E dl \in DelayOutcomes :
                          IF dl = "throw"
                            THEN /\ settled' = Raise(ErrDelay)
                                 /\ pc' = "done"
                                 /\ UNCHANGED <<resAttempts, waits>>
                            ELSE /\ pc' = "wait"
                                 /\ waits' = waits + 1
                                 /\ UNCHANGED <<settled, resAttempts>>
       ELSE /\ R6_ReturnFailure
            /\ UNCHANGED <<decisions, waits>>
  /\ UNCHANGED <<api, fn, fnCalls, fnSettled, ret, nextId, invokerOnly>>
  /\ UNCHANGED <<opts, counter, errors, caught, lastActualError, abandoned,
                 aborted, handlerLog>>
  /\ UNCHANGED auxVars

\* if (attempt < maxRetries && shouldRetry(err)) { delayMs = ...; wait }
\* else { return { result: null, error: err, ... } }
\* shouldRetry is not evaluated on the last attempt.  An exception of
\* shouldRetry or of the delay function leaves the catch block.
R6_Decide ==
  /\ api = "retry6"
  /\ pc = "decide"
  /\ IF counter < opts.maxRetries
       THEN \E d \in ShouldRetryOutcomes :
              /\ decisions' = Append(decisions, d)
              /\ CASE d = "throw" ->
                        /\ settled' = Raise(ErrPredicate)
                        /\ pc' = "done"
                        /\ UNCHANGED <<resAttempts, waits>>
                   [] d = "false" ->
                        /\ R6_ReturnFailure
                        /\ waits' = waits
                   [] OTHER ->
                        \E dl \in DelayOutcomes :
                          IF dl = "throw"
                            THEN /\ settled' = Raise(ErrDelay)
                                 /\ pc' = "done"
                                 /\ UNCHANGED <<resAttempts, waits>>
                            ELSE /\ pc' = "wait"
                                 /\ waits' = waits + 1
                                 /\ UNCHANGED <<settled, resAttempts>>
       ELSE /\ R6_ReturnFailure
            /\ UNCHANGED <<decisions, waits>>
  /\ UNCHANGED <<api, fn, fnCalls, fnSettled, ret, nextId, invokerOnly>>
  /\ UNCHANGED <<opts, counter, errors, caught, lastActualError, abandoned,
                 aborted, handlerLog>>
  /\ UNCHANGED auxVars

\* The timer of the wait fires; attempt++.
R6_WaitDone ==
  /\ api = "retry6"
  /\ pc = "wait"
  /\ counter' = counter + 1
  /\ pc' = "loop"
  /\ UNCHANGED <<api, fn, fnCalls, fnSettled, ret, settled, nextId, invokerOnly>>
  /\ UNCHANGED <<opts, errors, caught, lastActualError, waits, abandoned,
                 aborted, handlerLog, decisions, resAttempts>>
  /\ UNCHANGED auxVars

\* The late settlement as it would be if the engine still listened to it.
R6_AbandonedSettlesRecorded ==
  /\ api = "retry6"
  /\ abandoned > 0
  /\ abandoned' = abandoned - 1
  /\ errors' = Append(errors, ErrFail)
  /\ UNCHANGED <<api, fn, pc, fnCalls, fnSettled, ret, settled, nextId,
                 invokerOnly>>
  /\ UNCHANGED <<opts, counter, caught, lastActualError, waits,
                 aborted, handlerLog, decisions, resAttempts>>
  /\ UNCHANGED auxVars

\* An invocation that lost the race settles: nothing listens any more.
R6_AbandonedSettles ==
  /\ api = "retry6"
  /\ abandoned > 0
  /\ abandoned' = abandoned - 1
  /\ UNCHANGED <<api, fn, pc, fnCalls, fnSettled, ret, settled, nextId,
                 invokerOnly>>
  /\ UNCHANGED <<opts, counter, errors, caught, lastActualError, waits,
                 aborted, handlerLog, decisions, resAttempts>>
  /\ UNCHANGED auxVars

tryAndCatchWithRetry ==
  \/ R6_Start
  \/ R6_Loop
  \/ R6_Call
  \/ R6_Await
  \/ R6_Catch
  \/ R6_Decide
  \/ R6_WaitDone
  \/ R6_AbandonedSettles

\* ------------------------------------------------------------------------
\* tryAndCatchWithRetry, v4.1
\* ------------------------------------------------------------------------

invokerRest == <<fnSettled, cleanupSettled, detached, fin, unhandled>>

\* createSerializableError(error, attempt): a copy of the fields, without
\* the identity of the error; the attempt is not stored.
createSerializableError(e) ==
  [kind |-> "serializable", id |-> 0, msg |-> e.msg, num |-> 0, stack |-> e.stack]

\* The push as it would be if the newest entry were dropped at the cap.
PushDropNewest(h, e) ==
  IF Len(h) + 1 > opts.maxErrorHistory THEN h ELSE Append(h, e)

\* serializableErrors.push(e); if (length > maxErrorHistory) shift();
PushTrimmed(h, e) ==
  IF Len(h) + 1 > opts.maxErrorHistory THEN Tail(Append(h, e)) ELSE Append(h, e)

\* executeCleanup(onFinally, originalError, options.onCleanupError), awaited:
\* whether onFinally was called, whether the promise of executeCleanup
\* rejects and with what, the warning or the handler call it makes, and
\* whether it made a new object.
executeCleanup(orig, id) ==
  LET failing == onFinally.kind \in {"syncThrow", "asyncReject"}
      c == executeCleanupCatch(onFinally.err, orig, id)
      handled == failing /\ ~c.threw /\ opts.handler # "none"
  IN [called |-> onFinally.kind # "none",
      rejects |-> failing /\ (c.threw \/ (handled /\ opts.handler = "throws")),
      err |-> IF c.threw THEN c.err ELSE ErrHandler,
      handled |-> handled,
      call |-> <<c.err, orig>>,
      warned |-> failing /\ ~c.threw /\ ~handled,
      warn |-> c.warn,
      alloc |-> failing /\ Allocates(onFinally.err)]

\* The state changes of an awaited executeCleanup.
RunCleanup(c) ==
  /\ cleanupCalls' = IF c.called THEN cleanupCalls + 1 ELSE cleanupCalls
  /\ warns' = IF c.warned THEN Append(warns, c.warn) ELSE warns
  /\ handlerLog' = IF c.handled THEN Append(handlerLog, c.call) ELSE handlerLog
  /\ nextId' = IF c.alloc THEN nextId + 1 ELSE nextId

\* The async function is called.
R41_Start ==
  /\ api = "retry41"
  /\ pc = "start"
  /\ ret' = Pending
  /\ pc' = "loop"
  /\ UNCHANGED <<api, fn, onFinally, fnCalls, cleanupCalls, outcome, settled,
                 warns, nextId, invokerRest>>
  /\ UNCHANGED retryVars
  /\ UNCHANGED auxVars

\* while (attempts < maxAttempts) { attempts++; ... } and, past the loop,
\* return { result: null, error: lastActualError || new Error("Unknown error"), ... }
R41_Loop ==
  /\ api = "retry41"
  /\ pc = "loop"
  /\ IF counter < opts.maxRetries + 1
       THEN /\ counter' = counter + 1
            /\ pc' = "call"
            /\ UNCHANGED <<settled, resAttempts, nextId>>
       ELSE /\ settled' = Fail(IF lastActualError # NoErr
                                 THEN lastActualError
                                 ELSE NewError("Unknown error", nextId))
            /\ nextId' = IF lastActualError # NoErr THEN nextId ELSE nextId + 1
            /\ resAttempts' = counter
            /\ counter' = counter
            /\ pc' = "done"
  /\ UNCHANGED <<api, fn, onFinally, fnCalls, cleanupCalls, outcome, ret,
                 warns, invokerRest>>
  /\ UNCHANGED <<opts, errors, caught, lastActualError, waits, abandoned,
                 aborted, handlerLog, decisions>>
  /\ UNCHANGED auxVars

\* fn() is called, alone or as Promise.race([Promise.resolve(fn()), timer]).
\* Without a timeout a value that is no promise goes to the cleanup of the
\* success path at once.
R41_Call ==
  /\ api = "retry41"
  /\ pc = "call"
  /\ \E b \in RetryBehaviours41 :
       /\ b.kind = "slow" => (opts.timeout /\ abandoned < MaxAbandoned)
       /\ fn' = b
       /\ CASE b.kind = "throw" ->
                 /\ caught' = b.err
                 /\ outcome' = outcome
                 /\ pc' = "catch"
            [] b.kind = "return" /\ ~opts.timeout ->
                 /\ caught' = caught
                 /\ outcome' = Ok(b.val)
                 /\ pc' = "successCleanup"
            [] OTHER ->
                 /\ caught' = caught
                 /\ outcome' = outcome
                 /\ pc' = "awaitFn"
  /\ fnCalls' = fnCalls + 1
  /\ UNCHANGED <<api, onFinally, cleanupCalls, ret, settled, warns, nextId,
                 invokerRest>>
  /\ UNCHANGED <<opts, counter, errors, lastActualError, waits, abandoned,
                 aborted, handlerLog, decisions, resAttempts>>
  /\ UNCHANGED auxVars

\* The await of the attempt resumes: with the value, with the rejection, or
\* with the rejection of the timer, which leaves the invocation pending.
R41_Await ==
  /\ api = "retry41"
  /\ pc = "awaitFn"
  /\ CASE fn.kind \in {"fulfil", "return"} ->
            /\ outcome' = Ok(fn.val)
            /\ pc' = "successCleanup"
            /\ UNCHANGED <<caught, nextId, abandoned>>
       [] fn.kind = "reject" ->
            /\ caught' = fn.err
            /\ pc' = "catch"
            /\ UNCHANGED <<outcome, nextId, abandoned>>
       [] OTHER ->
            /\ caught' = NewError("Operation timed out after "
                                    \o ToString(TimeoutMs) \o "ms", nextId)
            /\ nextId' = nextId + 1
            /\ abandoned' = abandoned + 1
            /\ pc' = "catch"
            /\ outcome' = outcome
  /\ UNCHANGED <<api, fn, onFinally, fnCalls, cleanupCalls, ret, settled,
                 warns, invokerRest>>
  /\ UNCHANGED <<opts, counter, errors, lastActualError, waits, aborted,
                 handlerLog, decisions, resAttempts>>
  /\ UNCHANGED auxVars

\* Success: await executeCleanup(onFinally, undefined, options.onCleanupError)
\* and return the success record.  The await is inside the try block: when
\* the promise of executeCleanup rejects, the catch block of the attempt
\* receives the rejection.
R41_SuccessCleanup ==
  /\ api = "retry41"
  /\ pc = "successCleanup"
  /\ LET c == executeCleanup(NoErr, nextId) IN
       /\ RunCleanup(c)
       /\ IF c.rejects
            THEN /\ caught' = c.err
                 /\ pc' = "catch"
                 /\ UNCHANGED <<settled, resAttempts>>
            ELSE /\ settled' = outcome
                 /\ resAttempts' = counter
                 /\ pc' = "done"
                 /\ caught' = caught
  /\ UNCHANGED <<api, fn, onFinally, fnCalls, outcome, ret, invokerRest>>
  /\ UNCHANGED <<opts, counter, errors, lastActualError, waits, abandoned,
                 aborted, decisions>>
  /\ UNCHANGED auxVars

\* catch (error) { contextualError = ...; lastActualError = contextualError;
\* serializableErrors.push(...); if (length > maxErrorHistory) shift();
R41_Catch ==
  /\ api = "retry41"
  /\ pc = "catch"
  /\ LET n == toError(caught, nextId) IN
       /\ nextId' = IF Allocates(caught) THEN nextId + 1 ELSE nextId
       /\ IF n.threw
            THEN /\ settled' = Raise(n.err)
                 /\ pc' = "done"
                 /\ UNCHANGED <<errors, caught, lastActualError>>
            ELSE /\ errors' = PushTrimmed(errors, createSerializableError(n.err))
                 /\ caught' = n.err
                 /\ lastActualError' = n.err
                 /\ pc' = "decide"
                 /\ settled' = settled
  /\ UNCHANGED <<api, fn, onFinally, fnCalls, cleanupCalls, outcome, ret,
                 warns, invokerRest>>
  /\ UNCHANGED <<opts, counter, waits, abandoned, aborted, handlerLog,
                 decisions, resAttempts>>
  /\ UNCHANGED auxVars

\* const shouldRetry = options.shouldRetry ? options.shouldRetry(e) : true;
\* if (attempts >= maxAttempts || !shouldRetry) { final failure }
\* if (options.delay) { delayMs = ...;
\*   if (options.abortSignal?.aborted) throw new Error("Operation was aborted");
\* The throw is in the catch block of the attempt: it rejects the promise.
R41_Decide ==
  /\ api = "retry41"
  /\ pc = "decide"
  /\ \E d \in ShouldRetryOutcomes :
       /\ decisions' = Append(decisions, d)
       /\ CASE d = "throw" ->
                 /\ settled' = Raise(ErrPredicate)
                 /\ pc' = "done"
                 /\ UNCHANGED <<waits, nextId>>
            [] d # "throw" /\ (counter >= opts.maxRetries + 1 \/ d = "false") ->
                 /\ pc' = "failCleanup"
                 /\ UNCHANGED <<settled, waits, nextId>>
            [] OTHER ->
                 IF opts.delay = "none"
                   THEN /\ pc' = "loop"
                        /\ UNCHANGED <<settled, waits, nextId>>
                   ELSE \E dl \in DelayOutcomes :
                          CASE dl = "throw" ->
                                 /\ settled' = Raise(ErrDelay)
                                 /\ pc' = "done"
                                 /\ UNCHANGED <<waits, nextId>>
                            [] dl # "throw" /\ opts.signal /\ aborted ->
                                 /\ settled' = Raise(NewError("Operation was aborted", nextId))
                                 /\ nextId' = nextId + 1
                                 /\ pc' = "done"
                                 /\ waits' = waits
                            [] OTHER ->
                                 /\ pc' = "wait"
                                 /\ waits' = waits + 1
                                 /\ UNCHANGED <<settled, nextId>>
  /\ UNCHANGED <<api, fn, onFinally, fnCalls, cleanupCalls, outcome, ret,
                 warns, invokerRest>>
  /\ UNCHANGED <<opts, counter, errors, caught, lastActualError, abandoned,
                 aborted, handlerLog, resAttempts>>
  /\ UNCHANGED auxVars

\* Final failure: await executeCleanup(onFinally, contextualError,
\* options.onCleanupError) and return the failure record.  The await is in
\* the catch block: a rejection of executeCleanup rejects the promise.
R41_FailCleanup ==
  /\ api = "retry41"
  /\ pc = "failCleanup"
  /\ LET c == executeCleanup(caught, nextId) IN
       /\ RunCleanup(c)
       /\ IF c.rejects
            THEN /\ settled' = Raise(c.err)
                 /\ resAttempts' = resAttempts
            ELSE /\ settled' = Fail(caught)
                 /\ resAttempts' = counter
  /\ pc' = "done"
  /\ UNCHANGED <<api, fn, onFinally, fnCalls, outcome, ret, invokerRest>>
  /\ UNCHANGED <<opts, counter, errors, caught, lastActualError, waits,
                 abandoned, aborted, decisions>>
  /\ UNCHANGED auxVars

\* setTimeout(resolve, delayMs) fires: the loop goes on.
R41_WaitDone ==
  /\ api = "retry41"
  /\ pc = "wait"
  /\ pc' = "loop"
  /\ UNCHANGED <<api, fn, onFinally, fnCalls, cleanupCalls, outcome, ret,
                 settled, warns, nextId, invokerRest>>
  /\ UNCHANGED retryVars
  /\ UNCHANGED auxVars

\* The abort as it would be if the wait had no abort listener.
AbortUnheardInWait ==
  /\ api = "retry41"
  /\ opts.signal
  /\ ~aborted
  /\ pc \in {"decide", "wait"}
  /\ aborted' = TRUE
  /\ UNCHANGED <<api, fn, onFinally, pc, fnCalls, cleanupCalls, outcome, ret,
                 settled, warns, nextId, invokerRest>>
  /\ UNCHANGED <<opts, counter, errors, caught, lastActualError, waits,
                 abandoned, handlerLog, decisions, resAttempts>>
  /\ UNCHANGED auxVars

\* The caller aborts the signal.  The engine reads the signal in two places
\* only, before a wait and during it: an abort at any earlier moment is seen
\* as an abort before the wait.  During a wait the abort listener clears the
\* timer and rejects the promise of the wait.
Abort ==
  /\ api = "retry41"
  /\ opts.signal
  /\ ~aborted
  /\ pc \in {"decide", "wait"}
  /\ aborted' = TRUE
  /\ pc' = IF pc = "wait" THEN "waitAborted" ELSE pc
  /\ UNCHANGED <<api, fn, onFinally, fnCalls, cleanupCalls, outcome, ret,
                 settled, warns, nextId, invokerRest>>
  /\ UNCHANGED <<opts, counter, errors, caught, lastActualError, waits,
                 abandoned, handlerLog, decisions, resAttempts>>
  /\ UNCHANGED auxVars

\* catch (abortError) { return { result: null, error: abortError, ... } }
\* No cleanup runs on this path.
R41_AbortReturn ==
  /\ api = "retry41"
  /\ pc = "waitAborted"
  /\ settled' = Fail(NewError("Operation was aborted", nextId))
  /\ nextId' = nextId + 1
  /\ resAttempts' = counter
  /\ pc' = "done"
  /\ UNCHANGED <<api, fn, onFinally, fnCalls, cleanupCalls, outcome, ret,
                 warns, invokerRest>>
  /\ UNCHANGED <<opts, counter, errors, caught, lastActualError, waits,
                 abandoned, aborted, handlerLog, decisions>>
  /\ UNCHANGED auxVars

\* An invocation that lost the race settles: nothing listens any more.
R41_AbandonedSettles ==
  /\ api = "retry41"
  /\ abandoned > 0
  /\ abandoned' = abandoned - 1
  /\ UNCHANGED <<api, fn, onFinally, pc, fnCalls, cleanupCalls, outcome, ret,
                 settled, warns, nextId, invokerRest>>
  /\ UNCHANGED <<opts, counter, errors, caught, lastActualError, waits,
                 aborted, handlerLog, decisions, resAttempts>>
  /\ UNCHANGED auxVars

tryAndCatchWithRetry41 ==
  \/ R41_Start
  \/ R41_Loop
  \/ R41_Call
  \/ R41_Await
  \/ R41_SuccessCleanup
  \/ R41_Catch
  \/ R41_Decide
  \/ R41_FailCleanup
  \/ R41_WaitDone
  \/ Abort
  \/ R41_AbortReturn
  \/ R41_AbandonedSettles

\* ------------------------------------------------------------------------
\* ConcurrencyUtils.createMutex and ConcurrencyUtils.createSemaphore, v4.1
\* ------------------------------------------------------------------------

\* The callers whose acquire() promise is resolved and who have not called
\* their release function yet.
Holders == {c \in Callers : status[c] \in {"granted", "holding"}}

\* isLocked(): return locked
isLocked == locked

\* available(): return maxConcurrent - current
available == maxConcurrent - current

\* queue.shift() as it would be if it took the newest entry.
pop(q) == [next |-> q[Len(q)], rest |-> SubSeq(q, 1, Len(q) - 1)]

\* const next = queue.shift()
shift(q) == [next |-> Head(q), rest |-> Tail(q)]

\* The value of locked after release as it would be without  locked = true.
LockedAfterReleaseCleared == FALSE

\* locked = false; const next = queue.shift(); if (next) { locked = true; }
LockedAfterRelease == queue # <<>>

\* The test of the semaphore as it would be with <= for <.
HasFreeSlotOffByOne == current <= maxConcurrent

\* if (current < maxConcurrent)
HasFreeSlot == current < maxConcurrent

\* A sequence without the entries equal to c.
Without(q, c) == SelectSeq(q, LAMBDA x : x # c)

\* next(): the promise of the caller taken from the queue is resolved.
WakeNext(st) ==
  IF queue = <<>>
    THEN /\ status' = st
         /\ UNCHANGED <<queue, waiting>>
    ELSE /\ status' = [st EXCEPT ![shift(queue).next] = "granted"]
         /\ queue' = shift(queue).rest
         /\ waiting' = Without(waiting, shift(queue).next)

\* The release function of the mutex.
MutexRelease(st) ==
  /\ locked' = LockedAfterRelease
  /\ WakeNext(st)
  /\ UNCHANGED <<maxConcurrent, current, rounds>>

\* The release function of the semaphore: current--, and for a suspended
\* caller current++ before next() and current++ again inside next().
SemaphoreRelease(st) ==
  /\ current' = IF queue = <<>> THEN current - 1 ELSE (current - 1) + 1 + 1
  /\ WakeNext(st)
  /\ UNCHANGED <<maxConcurrent, locked, rounds>>

\* mutex.acquire(): the executor of the promise runs at once.
Mutex_acquire(c) ==
  /\ api = "createMutex"
  /\ status[c] = "idle"
  /\ rounds[c] < MaxRounds
  /\ rounds' = [rounds EXCEPT ![c] = @ + 1]
  /\ IF ~locked
       THEN /\ locked' = TRUE
            /\ status' = [status EXCEPT ![c] = "granted"]
            /\ UNCHANGED <<queue, waiting>>
       ELSE /\ queue' = Append(queue, c)
            /\ waiting' = Append(waiting, c)
            /\ status' = [status EXCEPT ![c] = "waiting"]
            /\ locked' = locked
  /\ UNCHANGED <<maxConcurrent, current, extra>>
  /\ UNCHANGED callVars
  /\ UNCHANGED <<arg, out, debugVars>>

\* The holder calls its release function.
Mutex_release(c) ==
  /\ api = "createMutex"
  /\ status[c] = "holding"
  /\ MutexRelease([status EXCEPT ![c] = "idle"])
  /\ UNCHANGED extra
  /\ UNCHANGED callVars
  /\ UNCHANGED <<arg, out, debugVars>>

\* A caller calls again a release function it has called before.
Mutex_releaseAgain(c) ==
  /\ api = "createMutex"
  /\ status[c] = "idle"
  /\ rounds[c] > 0
  /\ extra < MaxExtraReleases
  /\ extra' = extra + 1
  /\ MutexRelease(status)
  /\ UNCHANGED callVars
  /\ UNCHANGED <<arg, out, debugVars>>

\* semaphore.acquire(): the executor of the promise runs at once.
Semaphore_acquire(c) ==
  /\ api = "createSemaphore"
  /\ status[c] = "idle"
  /\ rounds[c] < MaxRounds
  /\ rounds' = [rounds EXCEPT ![c] = @ + 1]
  /\ IF HasFreeSlot
       THEN /\ current' = current + 1
            /\ status' = [status EXCEPT ![c] = "granted"]
            /\ UNCHANGED <<queue, waiting>>
       ELSE /\ queue' = Append(queue, c)
            /\ waiting' = Append(waiting, c)
            /\ status' = [status EXCEPT ![c] = "waiting"]
            /\ current' = current
  /\ UNCHANGED <<maxConcurrent, locked, extra>>
  /\ UNCHANGED callVars
  /\ UNCHANGED <<arg, out, debugVars>>

\* The holder calls its release function.
Semaphore_release(c) ==
  /\ api = "createSemaphore"
  /\ status[c] = "holding"
  /\ SemaphoreRelease([status EXCEPT ![c] = "idle"])
  /\ UNCHANGED extra
  /\ UNCHANGED callVars
  /\ UNCHANGED <<arg, out, debugVars>>

\* A caller calls again a release function it has called before.
Semaphore_releaseAgain(c) ==
  /\ api = "createSemaphore"
  /\ status[c] = "idle"
  /\ rounds[c] > 0
  /\ extra < MaxExtraReleases
  /\ extra' = extra + 1
  /\ SemaphoreRelease(status)
  /\ UNCHANGED callVars
  /\ UNCHANGED <<arg, out, debugVars>>

\* const release = await gate.acquire() resumes in the caller.
AwaitAcquire(c) ==
  /\ api \in GateApis
  /\ status[c] = "granted"
  /\ status' = [status EXCEPT ![c] = "holding"]
  /\ UNCHANGED <<maxConcurrent, locked, current, queue, rounds, extra,
                 waiting>>
  /\ UNCHANGED callVars
  /\ UNCHANGED <<arg, out, debugVars>>

createMutex ==
  \/ \E c \in Callers : Mutex_acquire(c)
  \/ \E c \in Callers : Mutex_release(c)
  \/ \E c \in Callers : Mutex_releaseAgain(c)

createSemaphore ==
  \/ \E c \in Callers : Semaphore_acquire(c)
  \/ \E c \in Callers : Semaphore_release(c)
  \/ \E c \in Callers : Semaphore_releaseAgain(c)

InitGates ==
  /\ api \in GateApis
  /\ fn = NoFn
  /\ onFinally = NoCleanup
  /\ opts = NoOpts
  /\ InitRest

NextGates ==
  \/ createMutex
  \/ createSemaphore
  \/ \E c \in Callers : AwaitAcquire(c)

\* The gates under every interleaving of their callers.
SpecGates == InitGates /\ [][NextGates]_vars

\* The gates with callers that go on: a caller whose acquire() is resolved
\* resumes, and a caller that holds calls its release function.
SpecGatesFair ==
  /\ InitGates
  /\ [][NextGates]_vars
  /\ \A c \in Callers :
       /\ WF_vars(AwaitAcquire(c))
       /\ WF_vars(Mutex_release(c))
       /\ WF_vars(Semaphore_release(c))

\* ------------------------------------------------------------------------
\* ErrorTypes (v6.0 and v4.1), isSuccess, isError, unwrap
\* ------------------------------------------------------------------------

\* The lower-case form of a word, as the i flag of a regular expression
\* reads it.
Lower(w) ==
  CASE w = "Network" -> "network"
    [] w = "Request" -> "request"
    [] w = "Connection" -> "connection"
    [] w = "Operation" -> "operation"
    [] w = "Invalid" -> "invalid"
    [] w = "Internal" -> "internal"
    [] OTHER -> w

\* message.includes(w) and message.includes(w1 + " " + w2)
Includes(m, w) == \E i \in 1 .. Len(m) : m[i] = w
IncludesPhrase(m, w1, w2) ==
  \E i \in 1 .. Len(m) - 1 : m[i] = w1 /\ m[i + 1] = w2

\* /w/i.test(message) and /w1 w2/i.test(message)
Test(m, w) == \E i \in 1 .. Len(m) : Lower(m[i]) = w
TestPhrase(m, w1, w2) ==
  \E i \in 1 .. Len(m) - 1 : Lower(m[i]) = w1 /\ Lower(m[i + 1]) = w2

\* ErrorTypes of v6.0
ErrorTypes_isNetworkError(e) ==
  \E w \in {"network", "fetch", "request", "connection"} : Test(e.message, w)

ErrorTypes_isTimeoutError(e) ==
  Test(e.message, "timeout") \/ TestPhrase(e.message, "timed", "out")

ErrorTypes_isRetryable(e) ==
  ErrorTypes_isNetworkError(e) \/ ErrorTypes_isTimeoutError(e)

\* ErrorTypes of v4.1, which has no isTimeoutError: the timeout test is a
\* clause of isRetryable (and of isNetworkError).
ErrorTypes41_isNetworkError(e) ==
  \/ e.name = "NetworkError"
  \/ Includes(e.message, "network")
  \/ Includes(e.message, "fetch")
  \/ Includes(e.message, "timeout")
  \/ e.code = "NETWORK_ERROR"
  \/ e.code = "ECONNREFUSED"
  \/ e.code = "ETIMEDOUT"

ErrorTypes41_timeoutClause(e) == Includes(e.message, "timeout")

ErrorTypes41_isRetryable(e) ==
  \/ ErrorTypes41_isNetworkError(e)
  \/ ErrorTypes41_timeoutClause(e)
  \/ IncludesPhrase(e.message, "rate", "limit")
  \/ IncludesPhrase(e.message, "server", "error")
  \/ (e.status >= 500 /\ e.status < 600)

\* isSuccess: return result.error === null
isSuccess(r) == r.error = NoErr

\* isError as it would be if it tested the result field.
isErrorByResult(r) == r.result = "null"

\* isError: return result.error !== null
isError(r) == r.error # NoErr

\* A value returned by a helper.
Returned(v) == [tag |-> "value", result |-> v, error |-> NoErr]

\* unwrap as it would be if it threw a copy of the error.
unwrapThrowsCopy(r) ==
  IF r.error # NoErr THEN Raise([r.error EXCEPT !.id = 0])
                     ELSE Returned(r.result)

\* unwrap: if (result.error) throw result.error; return result.result
unwrap(r) ==
  IF r.error # NoErr THEN Raise(r.error) ELSE Returned(r.result)

\* unwrapOr as it would be with  result.result ?? defaultValue.
unwrapOrNullish(r, d) ==
  IF Present(r.result) THEN Returned(r.result) ELSE Returned(d)

\* unwrapOr: return result.error ? defaultValue : result.result
unwrapOr(r, d) ==
  IF r.error # NoErr THEN Returned(d) ELSE Returned(r.result)

\* The three predicates of ErrorTypes (v6.0) applied to the error.
ET_Classify ==
  /\ api = "ErrorTypes"
  /\ pc = "start"
  /\ out' = [out EXCEPT !.network = ErrorTypes_isNetworkError(arg),
                        !.timeout = ErrorTypes_isTimeoutError(arg),
                        !.retryable = ErrorTypes_isRetryable(arg)]
  /\ pc' = "done"
  /\ UNCHANGED <<api, fn, onFinally, fnCalls, fnSettled, cleanupCalls,
                 cleanupSettled, outcome, ret, settled, detached, fin, warns,
                 unhandled, nextId, retryVars>>
  /\ UNCHANGED <<gateVars, arg, debugVars>>

\* The predicates of ErrorTypes (v4.1) applied to the error.
ET41_Classify ==
  /\ api = "ErrorTypes41"
  /\ pc = "start"
  /\ out' = [out EXCEPT !.network = ErrorTypes41_isNetworkError(arg),
                        !.timeout = ErrorTypes41_timeoutClause(arg),
                        !.retryable = ErrorTypes41_isRetryable(arg)]
  /\ pc' = "done"
  /\ UNCHANGED <<api, fn, onFinally, fnCalls, fnSettled, cleanupCalls,
                 cleanupSettled, outcome, ret, settled, detached, fin, warns,
                 unhandled, nextId, retryVars>>
  /\ UNCHANGED <<gateVars, arg, debugVars>>

\* isSuccess(r), isError(r), unwrap(r) and unwrapOr(r, d) applied to a
\* Result.
ResultHelpers ==
  /\ api = "helpers"
  /\ pc = "start"
  /\ out' = [out EXCEPT !.isSuccess = isSuccess(arg),
                        !.isError = isError(arg),
                        !.unwrap = unwrap(arg),
                        !.unwrapOr = unwrapOr(arg, out.defaultValue)]
  /\ pc' = "done"
  /\ UNCHANGED <<api, fn, onFinally, fnCalls, fnSettled, cleanupCalls,
                 cleanupSettled, outcome, ret, settled, detached, fin, warns,
                 unhandled, nextId, retryVars>>
  /\ UNCHANGED <<gateVars, arg, debugVars>>

\* unwrap(tryAndCatch(fn)) for a synchronous fn: unwrap receives the Result
\* that tryAndCatch returned.
UnwrapReturned ==
  /\ api = "tryAndCatch"
  /\ pc = "done"
  /\ ret.tag = "result"
  /\ arg = NoArg
  /\ arg' = ret
  /\ out' = [out EXCEPT !.isSuccess = isSuccess(ret),
                        !.isError = isError(ret),
                        !.unwrap = unwrap(ret),
                        !.unwrapOr = unwrapOr(ret, out.defaultValue)]
  /\ UNCHANGED callVars
  /\ UNCHANGED <<gateVars, debugVars>>

InitHelpers ==
  /\ \/ /\ api \in HelperApis
        /\ fn = NoFn
        /\ onFinally = NoCleanup
     \/ /\ api = "tryAndCatch"
        /\ fn \in FnBehaviours
        /\ onFinally \in CleanupBehaviours
  /\ opts = NoOpts
  /\ InitRest

NextHelpers ==
  \/ ET_Classify
  \/ ET41_Classify
  \/ ResultHelpers
  \/ tryAndCatch
  \/ UnwrapReturned

\* ErrorTypes, the type guards and unwrap, alone and after tryAndCatch.
SpecHelpers == InitHelpers /\ [][NextHelpers]_vars

\* ---------------------------------------------------------------------
\* withRetry(fn, maxRetries = 3, delayMs = 1000): the plain retry helper.
\* It uses attempt (counter), lastError (lastActualError) and the timer of
\* the wait; waits counts the timers it has started.
\* ---------------------------------------------------------------------

\* The value of a variable that was declared and never assigned.
Undefined == [kind |-> "undefined", id |-> 0, msg |-> "", num |-> 0, stack |-> ""]

WithRetryOptions == [maxRetries : -1 .. MaxRetries, shouldRetry : {"default"},
                     delay : {"fixed"}, timeout : {FALSE}, signal : {FALSE},
                     handler : {"none"},
                     maxErrorHistory : {DefaultMaxErrorHistory}]

WithRetryBehaviours == {b \in RetryBehaviours : b.kind # "slow"}

InitWithRetry ==
  /\ api = "withRetry"
  /\ fn = NoFn
  /\ onFinally = NoCleanup
  /\ opts \in WithRetryOptions

\* An async function: the caller gets a promise at once.
WR_Start ==
  /\ api = "withRetry"
  /\ pc = "start"
  /\ ret' = Pending
  /\ pc' = "loop"
  /\ UNCHANGED <<api, fn, fnCalls, fnSettled, settled, nextId, invokerOnly>>
  /\ UNCHANGED retryVars
  /\ UNCHANGED auxVars

\* for (let attempt = 0; attempt <= maxRetries; ...) and, past the loop,
\* throw lastError!
WR_Loop ==
  /\ api = "withRetry"
  /\ pc = "loop"
  /\ IF counter <= opts.maxRetries
       THEN /\ pc' = "call"
            /\ settled' = settled
       ELSE /\ settled' = Raise(IF lastActualError = NoErr
                                  THEN Undefined ELSE lastActualError)
            /\ pc' = "done"
  /\ UNCHANGED <<api, fn, fnCalls, fnSettled, ret, nextId, invokerOnly>>
  /\ UNCHANGED retryVars
  /\ UNCHANGED auxVars

\* fn() is called inside the try block.
WR_Call ==
  /\ api = "withRetry"
  /\ pc = "call"
  /\ \E b \in WithRetryBehaviours :
       /\ fn' = b
       /\ fnSettled' = (b.kind \in {"return", "throw"})
       /\ IF b.kind = "throw"
            THEN /\ caught' = b.err
                 /\ pc' = "catch"
            ELSE /\ caught' = caught
                 /\ pc' = "awaitFn"
  /\ fnCalls' = fnCalls + 1
  /\ UNCHANGED <<api, ret, settled, nextId, invokerOnly>>
  /\ UNCHANGED <<opts, counter, errors, lastActualError, waits, abandoned,
                 aborted, handlerLog, decisions, resAttempts>>
  /\ UNCHANGED auxVars

\* return await fn(): the value ends the invocation, the rejection enters
\* the catch block.
WR_Await ==
  /\ api = "withRetry"
  /\ pc = "awaitFn"
  /\ IF fn.kind \in {"fulfil", "return"}
       THEN /\ settled' = Returned(fn.val)
            /\ pc' = "done"
            /\ caught' = caught
       ELSE /\ caught' = fn.err
            /\ pc' = "catch"
            /\ settled' = settled
  /\ fnSettled' = TRUE
  /\ UNCHANGED <<api, fn, fnCalls, ret, nextId, invokerOnly>>
  /\ UNCHANGED <<opts, counter, errors, lastActualError, waits, abandoned,
                 aborted, handlerLog, decisions, resAttempts>>
  /\ UNCHANGED auxVars

\* The catch block as it would be with the timer started after every
\* failed attempt, the last one included.
WR_CatchAlwaysWaits ==
  /\ api = "withRetry"
  /\ pc = "catch"
  /\ LET n == toError(caught, nextId) IN
       /\ nextId' = IF Allocates(caught) THEN nextId + 1 ELSE nextId
       /\ IF n.threw
            THEN /\ settled' = Raise(n.err)
                 /\ pc' = "done"
                 /\ UNCHANGED <<lastActualError, waits, counter>>
            ELSE /\ lastActualError' = n.err
                 /\ settled' = settled
                 /\ pc' = "wait"
                 /\ waits' = waits + 1
                 /\ counter' = counter
  /\ UNCHANGED <<api, fn, fnCalls, fnSettled, ret, invokerOnly>>
  /\ UNCHANGED <<opts, errors, caught, abandoned, aborted, handlerLog,
                 decisions, resAttempts>>
  /\ UNCHANGED auxVars

\* catch (error) { lastError = error instanceof Error ? error
\*                                   : new Error(String(error));
\*                 if (attempt < maxRetries) await new Promise(setTimeout) }
\* A conversion that throws leaves the async function by exception; after
\* the last attempt the loop goes on to attempt++ without a timer.
WR_Catch ==
  /\ api = "withRetry"
  /\ pc = "catch"
  /\ LET n == toError(caught, nextId) IN
       /\ nextId' = IF Allocates(caught) THEN nextId + 1 ELSE nextId
       /\ IF n.threw
            THEN /\ settled' = Raise(n.err)
                 /\ pc' = "done"
                 /\ UNCHANGED <<lastActualError, waits, counter>>
            ELSE /\ lastActualError' = n.err
                 /\ settled' = settled
                 /\ IF counter < opts.maxRetries
                      THEN /\ pc' = "wait"
                           /\ waits' = waits + 1
                           /\ counter' = counter
                      ELSE /\ pc' = "loop"
                           /\ counter' = counter + 1
                           /\ waits' = waits
  /\ UNCHANGED <<api, fn, fnCalls, fnSettled, ret, invokerOnly>>
  /\ UNCHANGED <<opts, errors, caught, abandoned, aborted, handlerLog,
                 decisions, resAttempts>>
  /\ UNCHANGED auxVars

\* The timer of delayMs fires; attempt++.
WR_WaitDone ==
  /\ api = "withRetry"
  /\ pc = "wait"
  /\ counter' = counter + 1
  /\ pc' = "loop"
  /\ UNCHANGED <<api, fn, fnCalls, fnSettled, ret, settled, nextId, invokerOnly>>
  /\ UNCHANGED <<opts, errors, caught, lastActualError, waits, abandoned,
                 aborted, handlerLog, decisions, resAttempts>>
  /\ UNCHANGED auxVars

withRetry ==
  \/ WR_Start
  \/ WR_Loop
  \/ WR_Call
  \/ WR_Await
  \/ WR_Catch
  \/ WR_WaitDone

InitWithRetryCall == InitWithRetry /\ InitRest

SpecWithRetry == InitWithRetryCall /\ [][withRetry]_vars

\* ---------------------------------------------------------------------
\* The debug functions of the debug-enabled variant: enableDebug,
\* disableDebug, getDebugConfig, configureDebug.
\* ---------------------------------------------------------------------

\* { ...base, ...c }
Spread(base, c) ==
  [enabled |-> IF "enabled" \in c.given THEN c.val.enabled ELSE base.enabled,
   logSuccess |-> base.logSuccess,
   logErrors |-> base.logErrors,
   logArgs |-> base.logArgs,
   logTiming |-> IF "logTiming" \in c.given THEN c.val.logTiming ELSE base.logTiming,
   prefix |-> IF "prefix" \in c.given THEN c.val.prefix ELSE base.prefix]

\* debugConfig = { ... } makes the variable refer to a new object: an
\* object a caller holds is the internal one no longer.
Replaced(o) == IF o.ref = "internal" THEN [o EXCEPT !.ref = "fresh"] ELSE o

\* debugLog.info(message): printed when the configuration is enabled.
Info(cfg, message) == IF cfg.enabled THEN message ELSE consoleLine

\* debugConfig = { ...debugConfig, enabled: true, ...config }
enableDebug ==
  /\ api = "debug"
  /\ \E c \in Partials :
       /\ config' = c
       /\ debugConfig' = Spread([debugConfig EXCEPT !.enabled = TRUE], c)
  /\ copy' = Replaced(copy)
  /\ consoleLine' = Info(debugConfig', "Debug mode enabled")
  /\ pc' = "enableDebug"
  /\ UNCHANGED <<api, fn, onFinally, fnCalls, fnSettled, cleanupCalls,
                 cleanupSettled, outcome, ret, settled, detached, fin, warns,
                 unhandled, nextId, retryVars>>
  /\ UNCHANGED <<gateVars, arg, out>>

\* debugConfig.enabled = false, written into the internal object.
disableDebug ==
  /\ api = "debug"
  /\ debugConfig' = [debugConfig EXCEPT !.enabled = FALSE]
  /\ copy' = IF copy.ref = "internal"
               THEN [copy EXCEPT !.val = debugConfig'] ELSE copy
  /\ consoleLine' = IF debugConfig.enabled
                      THEN "Debug mode disabled" ELSE consoleLine
  /\ config' = NoConfig
  /\ pc' = "disableDebug"
  /\ UNCHANGED <<api, fn, onFinally, fnCalls, fnSettled, cleanupCalls,
                 cleanupSettled, outcome, ret, settled, detached, fin, warns,
                 unhandled, nextId, retryVars>>
  /\ UNCHANGED <<gateVars, arg, out>>

\* getDebugConfig as it would be with  return debugConfig.
ReturnsInternalObject == [ref |-> "internal", val |-> debugConfig]

\* return { ...debugConfig }
ReturnsSpreadCopy == [ref |-> "fresh", val |-> debugConfig]

getDebugConfig ==
  /\ api = "debug"
  /\ copy' = ReturnsSpreadCopy
  /\ config' = NoConfig
  /\ pc' = "getDebugConfig"
  /\ UNCHANGED <<debugConfig, consoleLine>>
  /\ UNCHANGED <<api, fn, onFinally, fnCalls, fnSettled, cleanupCalls,
                 cleanupSettled, outcome, ret, settled, detached, fin, warns,
                 unhandled, nextId, retryVars>>
  /\ UNCHANGED <<gateVars, arg, out>>

\* configureDebug as it would be without the test of debugConfig.enabled.
configureDebugUnguarded ==
  /\ api = "debug"
  /\ \E c \in Partials :
       /\ config' = c
       /\ debugConfig' = Spread(debugConfig, c)
  /\ copy' = Replaced(copy)
  /\ consoleLine' = Info(debugConfig', "Debug configuration updated")
  /\ pc' = "configureDebug"
  /\ UNCHANGED <<api, fn, onFinally, fnCalls, fnSettled, cleanupCalls,
                 cleanupSettled, outcome, ret, settled, detached, fin, warns,
                 unhandled, nextId, retryVars>>
  /\ UNCHANGED <<gateVars, arg, out>>

\* if (!debugConfig.enabled) { console.warn(...); return; }
\* debugConfig = { ...debugConfig, ...config }
configureDebug ==
  /\ api = "debug"
  /\ \E c \in Partials :
       /\ config' = c
       /\ IF ~debugConfig.enabled
            THEN /\ consoleLine' = "Debug mode is not enabled"
                 /\ UNCHANGED <<debugConfig, copy>>
            ELSE /\ debugConfig' = Spread(debugConfig, c)
                 /\ copy' = Replaced(copy)
                 /\ consoleLine' = Info(debugConfig', "Debug configuration updated")
  /\ pc' = "configureDebug"
  /\ UNCHANGED <<api, fn, onFinally, fnCalls, fnSettled, cleanupCalls,
                 cleanupSettled, outcome, ret, settled, detached, fin, warns,
                 unhandled, nextId, retryVars>>
  /\ UNCHANGED <<gateVars, arg, out>>

\* The caller writes fields of the object it got from getDebugConfig; the
\* internal configuration changes with it when it is the same object.
MutateCopy ==
  /\ api = "debug"
  /\ copy.ref # "none"
  /\ \E c \in Partials :
       /\ c.given # {}
       /\ config' = c
       /\ copy' = [copy EXCEPT !.val = Spread(copy.val, c)]
  /\ debugConfig' = IF copy.ref = "internal" THEN copy'.val ELSE debugConfig
  /\ pc' = "mutate"
  /\ UNCHANGED consoleLine
  /\ UNCHANGED <<api, fn, onFinally, fnCalls, fnSettled, cleanupCalls,
                 cleanupSettled, outcome, ret, settled, detached, fin, warns,
                 unhandled, nextId, retryVars>>
  /\ UNCHANGED <<gateVars, arg, out>>

InitDebug ==
  /\ api = "debug"
  /\ fn = NoFn
  /\ onFinally = NoCleanup
  /\ opts = NoOpts
  /\ InitRest

NextDebug ==
  \/ enableDebug
  \/ disableDebug
  \/ getDebugConfig
  \/ configureDebug
  \/ MutateCopy

SpecDebug == InitDebug /\ [][NextDebug]_vars

\* ---------------------------------------------------------------------
\* ConcurrencyUtils.withMutex(fn, mutex): the wrapper
\*   async (...args) => { const release = await actualMutex.acquire();
\*                        try { return await fn(...args); }
\*                        finally { release(); } }
\* called by several callers on one mutex.  status[c] follows a call of
\* the wrapper: waiting / granted (in acquire), holding (the try block is
\* entered), succeeded / failed (fn has returned or fulfilled / has thrown
\* or rejected, the finally block is next), resolved / rejected (how the
\* promise of the wrapper settled).
\* ---------------------------------------------------------------------
WrappedOutcomes == {"return", "fulfil", "throw", "reject"}

\* Callers inside the wrapper between the grant and the release.
Inside == {c \in Callers : status[c] \in {"granted", "holding", "succeeded", "failed"}}

\* The wrapper is called: actualMutex.acquire().
WM_Call(c) ==
  /\ api = "withMutex"
  /\ status[c] \in {"idle", "resolved", "rejected"}
  /\ rounds[c] < MaxRounds
  /\ rounds' = [rounds EXCEPT ![c] = @ + 1]
  /\ IF ~locked
       THEN /\ locked' = TRUE
            /\ status' = [status EXCEPT ![c] = "granted"]
            /\ UNCHANGED <<queue, waiting>>
       ELSE /\ queue' = Append(queue, c)
            /\ waiting' = Append(waiting, c)
            /\ status' = [status EXCEPT ![c] = "waiting"]
            /\ locked' = locked
  /\ UNCHANGED <<maxConcurrent, current, extra>>
  /\ UNCHANGED callVars
  /\ UNCHANGED <<arg, out, debugVars>>

\* const release = await actualMutex.acquire() resumes.
WM_Resume(c) ==
  /\ api = "withMutex"
  /\ status[c] = "granted"
  /\ status' = [status EXCEPT ![c] = "holding"]
  /\ UNCHANGED <<maxConcurrent, locked, current, queue, rounds, extra,
                 waiting>>
  /\ UNCHANGED callVars
  /\ UNCHANGED <<arg, out, debugVars>>

\* await fn(...args): fn returns or fulfils, throws or rejects.
WM_Fn(c) ==
  /\ api = "withMutex"
  /\ status[c] = "holding"
  /\ \E b \in WrappedOutcomes :
       status' = [status EXCEPT ![c] = IF b \in {"return", "fulfil"}
                                         THEN "succeeded" ELSE "failed"]
  /\ UNCHANGED <<maxConcurrent, locked, current, queue, rounds, extra,
                 waiting>>
  /\ UNCHANGED callVars
  /\ UNCHANGED <<arg, out, debugVars>>

\* The wrapper as it would be without try / finally:
\*   const r = await fn(...args); release(); return r;
WM_ReleaseAfterSuccessOnly(c) ==
  /\ api = "withMutex"
  /\ status[c] \in {"succeeded", "failed"}
  /\ IF status[c] = "succeeded"
       THEN MutexRelease([status EXCEPT ![c] = "resolved"])
       ELSE /\ status' = [status EXCEPT ![c] = "rejected"]
            /\ UNCHANGED <<maxConcurrent, locked, current, queue, rounds,
                           waiting>>
  /\ UNCHANGED extra
  /\ UNCHANGED callVars
  /\ UNCHANGED <<arg, out, debugVars>>

\* finally { release(); } and the promise of the wrapper settles with the
\* value or with the failure of fn.
WM_Finally(c) ==
  /\ api = "withMutex"
  /\ status[c] \in {"succeeded", "failed"}
  /\ MutexRelease([status EXCEPT ![c] = IF status[c] = "succeeded"
                                          THEN "resolved" ELSE "rejected"])
  /\ UNCHANGED extra
  /\ UNCHANGED callVars
  /\ UNCHANGED <<arg, out, debugVars>>

withMutex ==
  \/ \E c \in Callers : WM_Call(c)
  \/ \E c \in Callers : WM_Resume(c)
  \/ \E c \in Callers : WM_Fn(c)
  \/ \E c \in Callers : WM_Finally(c)

InitWithMutex ==
  /\ api = "withMutex"
  /\ fn = NoFn
  /\ onFinally = NoCleanup
  /\ opts = NoOpts
  /\ InitRest

SpecWithMutex == InitWithMutex /\ [][withMutex]_vars

\* The wrapper with every caller going on: a resumed await, a settling fn
\* and the finally block are not postponed for ever.
SpecWithMutexFair ==
  /\ SpecWithMutex
  /\ \A c \in Callers :
       WF_vars(WM_Resume(c)) /\ WF_vars(WM_Fn(c)) /\ WF_vars(WM_Finally(c))

Next ==
  \/ tryAndCatch
  \/ tryAndCatchAsync
  \/ tryAndCatch41
  \/ tryAndCatchWithRetry

Spec == Init /\ [][Next]_vars

\* The retry engine of v4.1 on its own.
Init41 == InitRetry41 /\ InitRest

SpecRetry41 == Init41 /\ [][tryAndCatchWithRetry41]_vars

\* Both retry engines, v6.0 and v4.1.
InitRetry == (InitRetry6 \/ InitRetry41) /\ InitRest

NextRetry == tryAndCatchWithRetry \/ tryAndCatchWithRetry41

SpecRetry == InitRetry /\ [][NextRetry]_vars

\* Both retry engines without an abort signal, without an onCleanupError
\* handler and with the default history cap.  The steps of the engine are
\* continuations and timers of the event loop, which runs each of them; an
\* invocation that lost the race against the timeout need not settle.
InitNoAbort ==
  /\ InitRetry
  /\ ~opts.signal
  /\ opts.handler = "none"
  /\ opts.maxErrorHistory = DefaultMaxErrorHistory

tryAndCatchWithRetry41NoAbort ==
  \/ R41_Start
  \/ R41_Loop
  \/ R41_Call
  \/ R41_Await
  \/ R41_SuccessCleanup
  \/ R41_Catch
  \/ R41_Decide
  \/ R41_FailCleanup
  \/ R41_WaitDone
  \/ R41_AbandonedSettles

RetrySteps ==
  \/ R6_Start \/ R6_Loop \/ R6_Call \/ R6_Await \/ R6_Catch \/ R6_Decide
  \/ R6_WaitDone
  \/ R41_Start \/ R41_Loop \/ R41_Call \/ R41_Await \/ R41_SuccessCleanup
  \/ R41_Catch \/ R41_Decide \/ R41_FailCleanup \/ R41_WaitDone

NextNoAbort == tryAndCatchWithRetry \/ tryAndCatchWithRetry41NoAbort

SpecNoAbort ==
  InitNoAbort /\ [][NextNoAbort]_vars /\ WF_vars(RetrySteps /\ NextNoAbort)

TypeOK ==
  /\ pc \in {"start", "catch", "syncCleanup", "return", "detached", "awaitFn",
             "handlers", "finally", "awaitCleanup", "resolve", "done",
             "loop", "call", "decide", "wait", "successCleanup",
             "failCleanup", "waitAborted"}
  /\ fnCalls \in 0 .. MaxRetries + 1
  /\ cleanupCalls \in 0 .. MaxRetries + 2

\* ------------------------------------------------------------------------
\* What the caller observes
\* ------------------------------------------------------------------------

InvokerCall == api \in Apis
RetryCall == api \in {"retry6", "retry41"}

\* The call is over for the caller: it has returned or thrown (synchronous
\* path), or the promise it returned has settled.
Completed == pc \in {"done", "detached"}

\* The Result record the caller received, when there is one.
HasResult == ret.tag = "result" \/ settled.tag = "result"
TheResult == IF ret.tag = "result" THEN ret ELSE settled

\* The call threw, or the promise it returned rejected.
Escaped == ret.tag = "throw" \/ settled.tag = "throw"

\* The main callable failed with x (thrown or rejected).
FnFailed == fn.kind \in {"throw", "reject"}

IsFreshError(e) == e.kind = "Error" /\ e.id >= FirstFreshId

\* ------------------------------------------------------------------------
\* Claims
\* ------------------------------------------------------------------------

\* C1: for every synchronous callable that throws, whatever the thrown
\* value, tryAndCatch(fn) and tryAndCatch(fn, onFinally) do not throw: they
\* return synchronously a record whose result is null and whose error is
\* non-null.
C1_SyncThrowReturnsError ==
  (InvokerCall /\ api # "tryAndCatchAsync" /\ fn.kind = "throw" /\ Completed)
    => /\ ret.tag = "result"
       /\ ret.result = "null"
       /\ ret.error # NoErr

\* C2: for every synchronous callable that returns v, tryAndCatch returns
\* synchronously exactly {result: v, error: null}, with or without a
\* cleanup callback: it never returns a promise and never throws, and the
\* record is there as soon as the call is over.
C2_SyncReturnGivesValue ==
  (InvokerCall /\ api # "tryAndCatchAsync" /\ fn.kind = "return")
    => /\ ret.tag \in {"none", "result"}
       /\ settled = None
       /\ Completed => ret = [tag |-> "result", result |-> fn.val, error |-> NoErr]

C2_Witness ==
  /\ api = "tryAndCatch"
  /\ fn.kind = "return"
  /\ fn.val = "42"
  /\ onFinally.kind = "syncThrow"
  /\ pc = "done"
  /\ ret = Ok("42")

\* C3: when the callable returns a promise, the promise returned by
\* tryAndCatch / tryAndCatchAsync never rejects: it resolves to
\* {result: v, error: null} if the inner promise fulfils with v and to a
\* record with a null result and the error if it rejects, whatever the
\* cleanup callback does.
C3_PromiseNeverRejects ==
  (InvokerCall /\ fn.kind \in {"fulfil", "reject"})
    => /\ ret.tag \in {"none", "promise"}
       /\ settled.tag \in {"none", "result"}
       /\ pc = "done" =>
            IF fn.kind = "fulfil"
              THEN settled = Ok(fn.val)
              ELSE settled.result = "null" /\ settled.error # NoErr

\* C4: the promise returned by tryAndCatchWithRetry never rejects: for every
\* behaviour of the callable and every configuration (any maxRetries,
\* shouldRetry returning or throwing, fixed or function delay, timeout, abort
\* signal already aborted or fired during a wait, cleanup and onCleanupError
\* behaviour) it resolves to a RetryResult record.
C4_RetryNeverRejects ==
  (RetryCall /\ pc = "done") => settled.tag = "result"

\* C5 as stated: every Result has exactly one of its two fields present,
\* result is non-null if and only if error is null, also when the callable
\* returns null or undefined.
C5_ExactlyOnePresent ==
  HasResult => (Present(TheResult.result) <=> TheResult.error = NoErr)

\* C5 amended: at most one field is present. A failure record has a null
\* result; a success record has a null error and holds what the callable
\* returned, which is null or undefined when the callable returned that.
C5_AtMostOnePresent ==
  HasResult =>
    /\ TheResult.error # NoErr => TheResult.result = "null"
    /\ TheResult.error = NoErr =>
         /\ fn.kind \in {"return", "fulfil"}
         /\ TheResult.result = fn.val

C5_Witness ==
  /\ api = "retry6"
  /\ pc = "done"
  /\ settled = [tag |-> "result", result |-> "null", error |-> NoErr]
  /\ resAttempts = 2

\* C6: when the callable throws or rejects with an Error instance e, the
\* error of the returned Result is e itself (same identity), on the
\* synchronous path, the asynchronous path and in the final failure of
\* tryAndCatchWithRetry.
C6_ErrorInstanceIsKept ==
  (HasResult /\ FnFailed /\ instanceofError(fn.err) /\ TheResult.error # NoErr)
    => /\ TheResult.error = fn.err
       /\ TheResult.error.id = fn.err.id
       /\ TheResult.error.id < FirstFreshId

C6_Witness ==
  /\ api = "retry6"
  /\ pc = "done"
  /\ fn.kind = "throw"
  /\ settled = Fail(ErrCustom)
  /\ resAttempts = 2

\* What String(x) is for the thrown values of the model that are no Error.
ExpectedMessage(x) ==
  CASE x = StrBoom -> "boom"
    [] x = Num7 -> "7"
    [] OTHER -> "[object Object]"

\* C7: when the callable throws a value x that is not an Error instance (a
\* string, a number, a plain object), the returned error is a newly created
\* Error whose message is String(x).
C7_NonErrorIsWrapped ==
  (InvokerCall /\ HasResult /\ FnFailed /\ fn.err \in {StrBoom, Num7, PlainObj})
    => /\ IsFreshError(TheResult.error)
       /\ TheResult.error.msg = ExpectedMessage(fn.err)
       /\ TheResult.result = "null"

C7_Witness ==
  /\ api = "tryAndCatch"
  /\ fn.kind = "throw"
  /\ fn.err = Num7
  /\ pc = "done"
  /\ ret.tag = "result"
  /\ ret.error.msg = "7"

\* C8 as stated: a thrown value that is not an Error instance but exposes
\* message / name / stack fields is preserved: the returned error is the
\* thrown object itself, with its message.
C8_ErrorLikeIsPreserved ==
  (InvokerCall /\ HasResult /\ FnFailed /\ fn.err.kind = "errorlike")
    => /\ TheResult.error = fn.err
       /\ TheResult.error.msg = fn.err.msg

\* C8 amended: such a value is treated as any other non-Error value. The
\* returned error is a newly created Error, not the thrown object; its
\* message is String(x), "[object Object]", not the object's message; only
\* v4.1 copies the object's stack, v6.0 keeps none of its fields.
C8_ErrorLikeIsWrapped ==
  (InvokerCall /\ HasResult /\ FnFailed /\ fn.err.kind = "errorlike")
    => /\ IsFreshError(TheResult.error)
       /\ TheResult.error.id # fn.err.id
       /\ TheResult.error.msg = "[object Object]"
       /\ TheResult.error.msg # fn.err.msg
       /\ TheResult.error.stack =
            (IF api = "tryAndCatch41" THEN fn.err.stack ELSE "new")

C8_Witness ==
  /\ api = "tryAndCatch"
  /\ fn.kind = "throw"
  /\ fn.err = ErrLike
  /\ pc = "done"
  /\ ret.tag = "result"
  /\ ret.error.msg = "[object Object]"

\* C9: for tryAndCatch and tryAndCatchAsync a supplied cleanup callback is
\* invoked exactly once per call and only after the main callable has
\* settled, on every path (synchronous return, synchronous throw, promise
\* fulfilled, promise rejected).
C9_CleanupExactlyOnce ==
  (InvokerCall /\ onFinally.kind # "none")
    => /\ cleanupCalls <= 1
       /\ cleanupCalls > 0 => fnSettled
       /\ Completed => cleanupCalls = 1

\* The outcome of the same call made without a cleanup callback.
WithoutCleanup ==
  IF fn.kind \in {"return", "fulfil"}
    THEN Ok(fn.val)
    ELSE LET n == IF api = "tryAndCatch41"
                    THEN createContextualError(fn.err, FirstFreshId)
                    ELSE toError(fn.err, FirstFreshId)
         IN IF n.threw THEN Raise(n.err) ELSE Fail(n.err)

\* C10: the Result returned by tryAndCatch / tryAndCatchAsync does not
\* depend on the cleanup callback: for every outcome of the main callable
\* the call ends as it ends without a cleanup, whether the cleanup is
\* absent, completes, throws or rejects.
C10_ResultIndependentOfCleanup ==
  (InvokerCall /\ Completed)
    => (IF ret.tag = "promise" THEN settled ELSE ret) = WithoutCleanup

\* C11: every cleanup failure is caught and reported with console.warn and
\* never leaves tryAndCatch as an exception or as an unhandled promise
\* rejection, on every path: synchronous or asynchronous main callable,
\* cleanup that throws or cleanup that returns a rejecting promise.
C11_CleanupFailureIsReported ==
  (InvokerCall /\ pc = "done" /\ cleanupCalls > 0
     /\ onFinally.kind \in {"syncThrow", "asyncReject"})
    => /\ unhandled = {}
       /\ Escaped => outcome.tag = "throw"
       /\ Len(warns) = 1
       /\ warns[1].err = onFinally.err

\* C12: when the main callable is asynchronous and the cleanup callback
\* returns a promise, the promise returned by tryAndCatch / tryAndCatchAsync
\* does not settle before the cleanup promise has settled.
C12_SettlesAfterAsyncCleanup ==
  (InvokerCall /\ fn.kind \in {"fulfil", "reject"} /\ IsAsyncCleanup
     /\ settled.tag # "none")
    => /\ cleanupCalls = 1
       /\ cleanupSettled

C12_Witness ==
  /\ api = "tryAndCatch"
  /\ fn.kind = "fulfil"
  /\ onFinally.kind = "asyncOk"
  /\ settled = Ok(fn.val)
  /\ cleanupSettled

\* ------------------------------------------------------------------------
\* tryAndCatchWithRetry: what the caller observes
\* ------------------------------------------------------------------------

\* The call returned a success record.
Success == settled.tag = "result" /\ settled.error = NoErr

\* The call returned a failure record.
Failure == settled.tag = "result" /\ settled.error # NoErr

\* No invocation of the callable has succeeded.
NeverSucceeded == outcome = None /\ ~Success

\* shouldRetry answered true every time it was asked.
AlwaysRetry == \A i \in 1 .. Len(decisions) : decisions[i] = "true"

\* The run is one of plain retrying: the signal was not aborted, the delay
\* function and the onCleanupError handler returned, and every value the
\* callable or the cleanup failed with has a string conversion.
PlainRun ==
  /\ ~aborted
  /\ fn.err # BareObj
  /\ onFinally.err # BareCleanup
  /\ opts.handler # "throws"
  /\ settled # Raise(ErrDelay)

\* C13: for a callable that fails on every call, shouldRetry always
\* answering true and maxRetries = R >= 0, tryAndCatchWithRetry terminates;
\* it never makes more than R + 1 calls and, when it is over, it has made
\* exactly R + 1 calls and has returned a failure record with
\* attempts = R + 1.
AlwaysFailingMakesAllAttempts ==
  (RetryCall /\ opts.maxRetries >= 0 /\ NeverSucceeded /\ AlwaysRetry /\ PlainRun)
    => /\ fnCalls <= opts.maxRetries + 1
       /\ pc = "done" =>
            /\ fnCalls = opts.maxRetries + 1
            /\ Failure
            /\ settled.result = "null"
            /\ resAttempts = opts.maxRetries + 1

C14_SuccessEndsTheRun ==
  (RetryCall /\ AlwaysRetry)
    => /\ outcome # None => pc \in {"successCleanup", "done"}
       /\ (pc = "done" /\ (Success \/ outcome # None))
            => /\ settled = Ok(fn.val)
               /\ fnCalls = Len(decisions) + 1
               /\ resAttempts = fnCalls

\* C15: on every path by which tryAndCatchWithRetry returns a record, the
\* attempts field is the number of times the callable was invoked, and
\* 1 <= attempts <= maxRetries + 1, for every value of maxRetries.
C15_AttemptsCountsCalls ==
  (RetryCall /\ pc = "done" /\ settled.tag = "result")
    => /\ resAttempts = fnCalls
       /\ 1 <= resAttempts
       /\ resAttempts <= opts.maxRetries + 1

\* The cleanup cannot make executeCleanup reject: the onCleanupError handler
\* returns and the value the cleanup fails with has a string conversion.
CleanupContained == opts.handler # "throws" /\ onFinally.err # BareCleanup

\* shouldRetry answered false the last time it was asked.
Declined == Len(decisions) > 0 /\ decisions[Len(decisions)] = "false"

Exhausted == fnCalls >= 1 /\ fnCalls = opts.maxRetries + 1

\* The error the engine reports for the last invocation of the callable:
\* the Error it failed with, a new Error with the string of the value it
\* failed with, or the error of the timer.
IsErrorOfLastAttempt(e) ==
  CASE fn.kind \in {"throw", "reject"} /\ instanceofError(fn.err) -> e = fn.err
    [] fn.kind \in {"throw", "reject"} /\ ~instanceofError(fn.err) ->
         IsFreshError(e) /\ e.msg = String(fn.err)
    [] fn.kind = "slow" ->
         /\ IsFreshError(e)
         /\ e.msg = (IF api = "retry6"
                       THEN "Operation timeout"
                       ELSE "Operation timed out after " \o ToString(TimeoutMs) \o "ms")
    [] OTHER -> FALSE

\* C17: whenever tryAndCatchWithRetry returns a failure because the attempts
\* are exhausted or shouldRetry declined, the error field is the error of
\* the last attempt made, for every history cap, also a cap of 0 or one
\* smaller than the number of failures.
C17_FailureCarriesLastError ==
  (RetryCall /\ pc = "done" /\ Failure /\ fnCalls >= 1 /\ (Exhausted \/ Declined))
    => /\ settled.error = caught
       /\ IsErrorOfLastAttempt(settled.error)
       /\ api = "retry41" => lastActualError = settled.error

C17_Witness ==
  /\ api = "retry41"
  /\ pc = "done"
  /\ opts.maxErrorHistory = 0
  /\ fnCalls = MaxRetries + 1
  /\ errors = <<>>
  /\ fn.kind = "throw"
  /\ Failure
  /\ settled.error.msg = "boom"

\* The last n elements of a sequence.
LastN(h, n) == IF Len(h) <= n THEN h ELSE SubSeq(h, Len(h) - n + 1, Len(h))

\* A step that records a failure leaves in the history the most recent
\* entries, the new one last, and no other step touches the history.
HistoryStep ==
  IF pc = "catch" /\ pc' = "decide"
    THEN errors' = LastN(Append(errors, createSerializableError(caught')),
                         opts.maxErrorHistory)
    ELSE errors' = errors

\* C18: in the v4.1 tryAndCatchWithRetry the error history never holds more
\* than maxErrorHistory entries (default 10), during the run and in the
\* returned outcome, and when the cap is exceeded the oldest entry is
\* dropped first: the history is the most recent failures in order of
\* occurrence.
C18_HistoryIsCapped ==
  /\ [](api = "retry41" => Len(errors) <= opts.maxErrorHistory)
  /\ [][api = "retry41" => HistoryStep]_vars

C18_Witness ==
  /\ api = "retry41"
  /\ pc = "done"
  /\ opts.maxErrorHistory = MaxRetries
  /\ fnCalls = MaxRetries + 1
  /\ Failure
  /\ Len(errors) = MaxRetries
  /\ errors[1].msg = "boom"
  /\ errors[Len(errors)].msg = "fail"

\* The timer of the last attempt won the race against the callable.
TimedOut == RetryCall /\ fn.kind = "slow" /\ pc # "awaitFn"

\* The newest entry of the history is the error just caught (v4.1 keeps its
\* serializable form, and keeps nothing under a cap of 0).
RecordedLast ==
  IF api = "retry6"
    THEN Len(errors) > 0 /\ errors[Len(errors)] = caught
    ELSE opts.maxErrorHistory > 0 =>
           /\ Len(errors) > 0
           /\ errors[Len(errors)] = createSerializableError(caught)

\* A timed out attempt is a failed attempt like any other.
TimeoutIsAFailure ==
  TimedOut =>
    /\ ~Success
    /\ IsErrorOfLastAttempt(caught)
    /\ fnCalls <= opts.maxRetries + 1
    /\ pc # "catch" => RecordedLast
    /\ pc \in {"wait", "loop", "call"} =>
         /\ fnCalls <= opts.maxRetries
         /\ Len(decisions) > 0
         /\ decisions[Len(decisions)] = "true"
    /\ (pc = "done" /\ Failure /\ ~aborted) =>
         /\ Exhausted \/ Declined
         /\ settled.error = caught
         /\ resAttempts = fnCalls

\* The settlement of an abandoned invocation changes nothing of the run, and
\* what was returned stays as it is.
AbandonedIsInert ==
  /\ abandoned' < abandoned =>
       UNCHANGED <<pc, settled, resAttempts, errors, counter, fnCalls, caught,
                   lastActualError, decisions, waits, outcome>>
  /\ pc = "done" => UNCHANGED <<pc, settled, resAttempts, errors>>

\* C19: with a per-attempt timeout, an attempt whose callable has not
\* settled when the timeout elapses is a failed attempt with a timeout
\* error, recorded in the history and decided on by shouldRetry and
\* maxRetries as any other failure; the later fulfilment or rejection of the
\* abandoned invocation never changes the returned outcome, the attempts
\* count or the history.
C19_TimeoutFailsTheAttempt ==
  /\ []TimeoutIsAFailure
  /\ [][RetryCall => AbandonedIsInert]_vars

C19_Witness ==
  /\ api = "retry6"
  /\ pc = "done"
  /\ fn.kind = "slow"
  /\ abandoned = 0
  /\ fnCalls = MaxRetries + 1
  /\ resAttempts = MaxRetries + 1
  /\ Len(errors) = MaxRetries + 1
  /\ Failure
  /\ settled.error.msg = "Operation timeout"

\* The signal fires during this step, while the engine waits between two
\* attempts.
AbortFiresInWait == api = "retry41" /\ pc = "wait" /\ ~aborted /\ aborted'

\* The record returned for an abort during a wait.
AbortedInWait ==
  /\ api = "retry41"
  /\ pc = "done"
  /\ Failure
  /\ settled.error.msg = "Operation was aborted"

\* An abort during the wait ends the wait at once; from there the engine
\* calls the callable no more and its only step is the return of a failure
\* record that carries the abort error and the number of calls made.
AbortEndsTheWait ==
  /\ AbortFiresInWait => pc' = "waitAborted"
  /\ pc = "waitAborted" =>
       /\ fnCalls' = fnCalls
       /\ pc' \in {"waitAborted", "done"}
       /\ pc' = "done" =>
            /\ settled' = Fail(NewError("Operation was aborted", nextId))
            /\ resAttempts' = fnCalls
  /\ AbortedInWait => UNCHANGED <<pc, fnCalls, settled, resAttempts>>

\* C20: in the v4.1 tryAndCatchWithRetry, when the abort signal fires while
\* the engine waits between attempts, the wait ends immediately, no further
\* attempt is made and the call returns a failure record whose error
\* indicates the abort, with attempts equal to the number of calls made so
\* far.
C20_AbortDuringWait ==
  /\ [](AbortedInWait =>
          /\ aborted
          /\ IsFreshError(settled.error)
          /\ settled.result = "null"
          /\ resAttempts = fnCalls
          /\ fnCalls = waits
          /\ fnCalls <= opts.maxRetries)
  /\ [](pc = "waitAborted" => ENABLED R41_AbortReturn)
  /\ [][AbortEndsTheWait]_vars

C20_Witness ==
  /\ AbortedInWait
  /\ aborted
  /\ opts.maxRetries = MaxRetries
  /\ fnCalls = 2
  /\ resAttempts = 2
  /\ waits = 2

\* C21: in the v4.1 tryAndCatchWithRetry the abort signal is checked before
\* each attempt: with the signal already aborted no attempt starts, the
\* first one and those of a configuration without delay included, and the
\* cancellation is returned as a failure record, never thrown.
C21_AbortCheckedBeforeAttempt ==
  (api = "retry41" /\ aborted)
    => /\ pc # "call"
       /\ (pc = "done" /\ settled.error # NoErr
             /\ settled.error.msg = "Operation was aborted")
            => settled.tag = "result"

\* C22: in the v4.1 tryAndCatchWithRetry(fn, options, onFinally) the cleanup
\* callback runs exactly once per call, after the last attempt and never
\* between attempts, on every path by which the call settles: success,
\* attempts exhausted, shouldRetry declined, timeout, abort.
C22_CleanupOnceAfterAllAttempts ==
  (api = "retry41" /\ onFinally # NoCleanup)
    => /\ cleanupCalls <= 1
       /\ cleanupCalls = 1 => pc = "done"
       /\ pc = "done" => cleanupCalls = 1

\* Every release function has been called at most once.
ReleasedOnce == extra = 0

\* C23: for a mutex of createMutex, under every interleaving of acquire
\* calls and releases in which each holder calls its release function once,
\* at most one caller holds the mutex at any time, and isLocked() is true
\* whenever a caller holds it.
C23_MutexIsExclusive ==
  (api = "createMutex" /\ ReleasedOnce)
    => /\ Cardinality(Holders) <= 1
       /\ Holders # {} => isLocked

C23_Witness ==
  /\ api = "createMutex"
  /\ ReleasedOnce
  /\ \E c \in Callers : status[c] = "holding" /\ rounds[c] = 2
  /\ Len(queue) = 2
  /\ isLocked

\* The elements of a sequence.
Range(q) == {q[i] : i \in 1 .. Len(q)}

\* A step grants in the order of the acquire() calls: a suspended caller is
\* woken only when it is the one suspended for the longest time, and a
\* caller is granted at its acquire() only when nobody is suspended.
FifoStep ==
  \A c \in Callers :
    /\ (status[c] = "waiting" /\ status'[c] = "granted") => c = Head(waiting)
    /\ (status[c] = "idle" /\ status'[c] = "granted") => waiting = <<>>

\* C24: FIFO fairness of the mutex and of the semaphore: suspended callers
\* are granted in the order in which they called acquire, release always
\* wakes the longest-waiting caller, and a caller that arrives while others
\* are waiting never overtakes them.
C24_GatesAreFifo ==
  /\ [](api \in GateApis =>
          /\ Range(waiting) = {c \in Callers : status[c] = "waiting"}
          /\ Len(waiting) = Cardinality(Range(waiting)))
  /\ [][(api \in GateApis) => FifoStep]_vars

\* A release has woken a caller of the semaphore (current exceeds
\* maxConcurrent only after that) while another caller stays suspended.
C24_Witness ==
  /\ api = "createSemaphore"
  /\ ReleasedOnce
  /\ current > maxConcurrent
  /\ Len(waiting) >= 1
  /\ \E c \in Callers : status[c] = "granted"

\* The number of callers holding a slot never exceeds maxConcurrent.
HoldersWithinLimit ==
  api = "createSemaphore" => Cardinality(Holders) <= maxConcurrent

\* C25 as stated: for a semaphore of createSemaphore(n), under every
\* interleaving of acquire and release calls, the number of callers holding
\* a slot at the same time never exceeds n.
C25_SemaphoreBoundsHolders == HoldersWithinLimit

\* C25 for release functions that are called at most once each: the number
\* of callers holding a slot at the same time never exceeds n.
C25_SemaphoreBoundsHoldersReleasedOnce == ReleasedOnce => HoldersWithinLimit

C25_Witness ==
  /\ api = "createSemaphore"
  /\ ReleasedOnce
  /\ maxConcurrent = 2
  /\ Cardinality(Holders) = 2
  /\ Len(queue) = 1
  /\ \E c \in Callers : rounds[c] = 2

\* C26: for a semaphore of createSemaphore(n), after any sequence of acquire
\* and release calls with each release function called once, available()
\* is n minus the number of callers holding a slot, so 0 <= available() <= n,
\* and a caller is suspended only when n callers hold a slot.
C26_AvailableCountsFreeSlots ==
  (api = "createSemaphore" /\ ReleasedOnce)
    => /\ available = maxConcurrent - Cardinality(Holders)
       /\ 0 <= available
       /\ available <= maxConcurrent
       /\ queue # <<>> => Cardinality(Holders) = maxConcurrent

\* Every caller suspended on the gate is granted in the end.
EverySuspendedCallerIsGranted ==
  \A c \in Callers : (status[c] = "waiting") ~> (status[c] = "granted")

\* C27: liveness of the gates: for a mutex or a semaphore with n >= 1, if
\* every caller that is granted eventually calls its release function, then
\* every acquire call is eventually granted, for any number and order of
\* acquire calls.
C27_EveryAcquireIsGranted == EverySuspendedCallerIsGranted

\* C28: for every error e, ErrorTypes.isRetryable(e) is true if and only if
\* ErrorTypes.isNetworkError(e) or ErrorTypes.isTimeoutError(e) is true: the
\* default retryable policy is exactly this union.
C28_RetryableIsTheUnion ==
  (api \in {"ErrorTypes", "ErrorTypes41"} /\ pc = "done")
    => (out.retryable <=> (out.network \/ out.timeout))

\* isSuccess, isError and unwrap have been applied to the Result in arg.
Applied ==
  \/ api = "helpers" /\ pc = "done"
  \/ api = "tryAndCatch" /\ arg # NoArg

\* C29: for every Result r, isSuccess(r) holds exactly when r.error is
\* absent and isError(r) exactly when r.error is present, so exactly one of
\* isSuccess(r), isError(r) is true.
C29_GuardsPartitionResults ==
  Applied
    => /\ out.isSuccess <=> (arg.error = NoErr)
       /\ out.isError <=> (arg.error # NoErr)
       /\ out.isSuccess # out.isError

\* isSuccess answers true for a success that carries null.
C29_Witness ==
  /\ api = "tryAndCatch"
  /\ arg = Ok("null")
  /\ out.isSuccess
  /\ ~out.isError

\* The Error the callable threw, when it threw one.
ThrewAnError == fn.kind = "throw" /\ instanceofError(fn.err)

\* C30: unwrap(r) returns r.result when r is a success and otherwise throws
\* the very error object contained in r; so unwrap(tryAndCatch(fn)) returns
\* what fn returned, or throws again the Error that fn threw.
C30_UnwrapReturnsOrRethrows ==
  Applied
    => /\ arg.error = NoErr => out.unwrap = Returned(arg.result)
       /\ arg.error # NoErr => out.unwrap = Raise(arg.error)
       /\ (api = "tryAndCatch" /\ fn.kind = "return")
            => out.unwrap = Returned(fn.val)
       /\ (api = "tryAndCatch" /\ ThrewAnError) => out.unwrap = Raise(fn.err)

C30_Witness ==
  /\ api = "tryAndCatch"
  /\ fn.kind = "throw"
  /\ fn.err = ErrCustom
  /\ onFinally = NoCleanup
  /\ out.unwrap = Raise(ErrCustom)

\* C31: unwrapOr(r, d) never throws: it returns r.result when r is a
\* success and exactly the supplied default d when r is a failure.
C31_UnwrapOrNeverThrows ==
  Applied
    => /\ out.unwrapOr.tag = "value"
       /\ arg.error = NoErr => out.unwrapOr = Returned(arg.result)
       /\ arg.error # NoErr => out.unwrapOr = Returned(out.defaultValue)

\* A success that carries null gives null, not the default.
C31_Witness ==
  /\ api = "helpers"
  /\ pc = "done"
  /\ arg = Ok("null")
  /\ out.defaultValue = "fallback"
  /\ out.unwrapOr = Returned("null")

\* What a call with an asynchronous callable resolves to: the value, or the
\* rejection converted to an Error.
AsyncResult ==
  IF fn.kind = "fulfil"
    THEN Ok(fn.val)
    ELSE LET n == toError(fn.err, FirstFreshId) IN
           IF n.threw THEN Raise(n.err) ELSE Fail(n.err)

\* The warnings of a call whose cleanup is invoked once.
CleanupWarnings ==
  IF onFinally.kind \in {"syncThrow", "asyncReject"}
    THEN <<CleanupFailed(onFinally.err)>>
    ELSE <<>>

\* C32: for every callable that returns a promise and every cleanup
\* callback, tryAndCatchAsync and tryAndCatch resolve to the same Result and
\* invoke the cleanup at the same point: once, after the callable has
\* settled and before the returned promise resolves.
C32_AsyncVariantsAgree ==
  (api \in {"tryAndCatch", "tryAndCatchAsync"} /\ fn.kind \in {"fulfil", "reject"})
    => /\ ret \in {None, Pending}
       /\ cleanupCalls > 0 => (fnSettled /\ cleanupCalls = 1)
       /\ settled # None =>
            /\ settled = AsyncResult
            /\ cleanupCalls = (IF onFinally.kind = "none" THEN 0 ELSE 1)
            /\ onFinally.kind # "none" => cleanupSettled
            /\ warns = CleanupWarnings
            /\ unhandled = {}

C32_Witness ==
  /\ api = "tryAndCatchAsync"
  /\ fn.kind = "reject"
  /\ fn.err = StrBoom
  /\ onFinally.kind = "asyncReject"
  /\ pc = "done"
  /\ settled.tag = "result"
  /\ settled.error.msg = String(StrBoom)
  /\ Len(warns) = 1

\* ---------------------------------------------------------------------
\* C33  withRetry returns the value of the first successful attempt and
\* calls fn no more; when all maxRetries + 1 attempts fail it throws the
\* error of the last attempt after exactly maxRetries + 1 calls, and it has
\* waited delayMs between two attempts only, never after the last one.
\* Read for maxRetries >= 0 and for failures that have a string conversion.
\* ---------------------------------------------------------------------
WithRetryPlain ==
  /\ api = "withRetry"
  /\ opts.maxRetries >= 0
  /\ ~(fn.kind \in {"reject", "throw"} /\ ~CanString(fn.err))

WithRetryOutcome ==
  (WithRetryPlain /\ pc = "done") =>
    /\ waits = fnCalls - 1
    /\ settled.tag = "value" =>
         /\ fn.kind \in {"fulfil", "return"}
         /\ settled.result = fn.val
         /\ fnCalls = counter + 1
    /\ settled.tag # "value" =>
         /\ settled.tag = "throw"
         /\ fn.kind \in {"reject", "throw"}
         /\ settled.error = toError(fn.err, settled.error.id).err
         /\ instanceofError(fn.err) => settled.error = fn.err
         /\ fnCalls = opts.maxRetries + 1

WithRetryStep ==
  api = "withRetry" =>
    /\ (pc = "awaitFn" /\ fn.kind \in {"fulfil", "return"})
         => (pc' = "done" /\ settled' = Returned(fn.val))
    /\ pc = "done" => UNCHANGED <<fnCalls, waits, settled>>
    /\ waits' # waits => (pc' = "wait" /\ waits' = fnCalls /\ fnCalls <= opts.maxRetries)
    /\ fnCalls' # fnCalls => (fnCalls' = fnCalls + 1 /\ waits = fnCalls)

WaitsBetweenAttempts ==
  api = "retry6" =>
    /\ pc = "wait" => (waits = fnCalls /\ counter + 1 = fnCalls)
    /\ pc = "call" => waits = fnCalls
    /\ (pc = "done" /\ fnCalls > 0) => waits = fnCalls - 1
    /\ (pc = "done" /\ settled.tag = "result") => waits = resAttempts - 1

WaitStep ==
  api = "retry6" =>
    /\ waits' # waits =>
         /\ pc = "decide" /\ pc' = "wait"
         /\ waits' = waits + 1
         /\ counter < opts.maxRetries
    /\ fnCalls' # fnCalls =>
         /\ pc = "call"
         /\ fnCalls' = fnCalls + 1
         /\ waits = fnCalls
    /\ (pc = "wait" /\ pc' # "wait") => (pc' = "loop" /\ counter' = counter + 1)

C34_OneWaitBetweenAttempts == []WaitsBetweenAttempts /\ [][WaitStep]_vars

C34_Witness ==
  /\ api = "retry6"
  /\ pc = "done"
  /\ settled.tag = "result"
  /\ resAttempts = MaxRetries + 1
  /\ waits = MaxRetries

\* ---------------------------------------------------------------------
\* C35  In the retry engine of v6.0 the errors field holds the errors of
\* the failed attempts, one per failed attempt and in the order of the
\* attempts: attempts - 1 errors beside a success, attempts errors beside
\* a failure, the last of them being the returned error.
\* ---------------------------------------------------------------------
ErrorsOfFailedAttempts ==
  (api = "retry6" /\ pc = "done" /\ settled.tag = "result") =>
    IF settled.error = NoErr
      THEN Len(errors) = resAttempts - 1
      ELSE /\ Len(errors) = resAttempts
           /\ errors[Len(errors)] = settled.error

ErrorsStep ==
  api = "retry6" =>
    /\ errors' # errors =>
         /\ pc = "catch"
         /\ errors' = Append(errors, toError(caught, nextId).err)
    /\ (pc = "catch" /\ pc' = "decide") => Len(errors') = fnCalls
    /\ pc = "done" => errors' = errors

C35_ErrorsInOrder == []ErrorsOfFailedAttempts /\ [][ErrorsStep]_vars

C35_Witness ==
  /\ api = "retry6"
  /\ pc = "done"
  /\ settled.tag = "result"
  /\ settled.error = ErrCustom
  /\ resAttempts = 3
  /\ Len(errors) = 3
  /\ errors[1].msg = String(StrBoom)
  /\ errors[2] = ErrFail
  /\ errors[3] = ErrCustom

\* ---------------------------------------------------------------------
\* C36  In the retry engine of v4.1, when the cleanup callback fails and
\* an onCleanupError handler is configured, the handler is called exactly
\* once, with the cleanup error and the final error of the operation
\* (none after a success), no warning is printed, and the outcome returned
\* is the one the attempts determine: result, error and attempts are what
\* they would be with a cleanup that succeeds.
\* ---------------------------------------------------------------------
CleanupFailedWithHandler ==
  /\ api = "retry41"
  /\ pc = "done"
  /\ cleanupCalls > 0
  /\ onFinally.kind \in {"syncThrow", "asyncReject"}
  /\ opts.handler # "none"

OutcomeOfTheAttempts ==
  /\ settled.tag = "result"
  /\ resAttempts = fnCalls
  /\ settled = (IF fn.kind \in {"return", "fulfil"}
                  THEN Ok(fn.val) ELSE Fail(lastActualError))

HandlerCalledOnce ==
  /\ Len(handlerLog) = 1
  /\ handlerLog[1][1] = onFinally.err
  /\ handlerLog[1][2] = settled.error
  /\ warns = <<>>

C36_HandlerReplacesWarning ==
  CleanupFailedWithHandler => (HandlerCalledOnce /\ OutcomeOfTheAttempts)

\* ---------------------------------------------------------------------
\* C37  configureDebug changes the debug configuration only while debug
\* mode is enabled: called while it is disabled it leaves the whole
\* configuration as it was, called while it is enabled it merges its
\* argument into it.  getDebugConfig returns the current values in an
\* object of the caller's own: writing to it leaves the internal
\* configuration as it was.
\* ---------------------------------------------------------------------
ConfigureStep ==
  pc' = "configureDebug" =>
    IF debugConfig.enabled
      THEN debugConfig' = debugConfig \/ debugConfig' = Spread(debugConfig, config')
      ELSE debugConfig' = debugConfig

CopyStep ==
  /\ pc' = "getDebugConfig" => (copy'.val = debugConfig /\ debugConfig' = debugConfig)
  /\ pc' = "mutate" => debugConfig' = debugConfig

C37_ConfigureOnlyWhileEnabled ==
  [][(api = "debug") => (ConfigureStep /\ CopyStep)]_vars

C37_Witness ==
  /\ api = "debug"
  /\ pc = "mutate"
  /\ ~debugConfig.enabled
  /\ debugConfig.prefix = "[CUSTOM]"
  /\ copy.val.prefix = "[try-and-catch]"
  /\ copy.val.enabled

\* ---------------------------------------------------------------------
\* C38  With a synchronous main callable and an awaitable cleanup,
\* tryAndCatch hands its Result to the caller synchronously: never a
\* promise, and at the moment of the return the cleanup has been started
\* once and its promise is still pending; the promise settles afterwards
\* without anyone waiting for it and without a change of the Result.
\* ---------------------------------------------------------------------
SyncCallAwaitableCleanup ==
  /\ api \in {"tryAndCatch", "tryAndCatch41"}
  /\ fn.kind \in {"return", "throw"}
  /\ IsAsyncCleanup

ResultIsSynchronous ==
  SyncCallAwaitableCleanup =>
    /\ ret # Pending
    /\ settled = None
    /\ ret.tag = "result" => cleanupCalls = 1
    /\ pc = "done" => ret # None

FireAndForgetStep ==
  SyncCallAwaitableCleanup =>
    /\ ret' # ret => ret = None
    /\ (ret' # ret /\ ret'.tag = "result") =>
         (cleanupCalls = 1 /\ ~cleanupSettled /\ ~cleanupSettled')
    /\ (cleanupSettled' /\ ~cleanupSettled) =>
         (ret.tag = "result" /\ ret' = ret)

C38_SyncResultDoesNotWaitForCleanup ==
  []ResultIsSynchronous /\ [][FireAndForgetStep]_vars

C38_Witness ==
  /\ api = "tryAndCatch"
  /\ fn.kind = "return"
  /\ onFinally.kind = "asyncOk"
  /\ ret = Ok(fn.val)
  /\ cleanupCalls = 1
  /\ ~cleanupSettled

\* ---------------------------------------------------------------------
\* C39  A mutex stays exclusive even when a release function is called
\* more than once: a second call of a release function changes nothing,
\* so that at most one caller holds the mutex, and the mutex is locked
\* while a caller holds it, with no premise on how often a release
\* function is called.
\* ---------------------------------------------------------------------
C39_DoubleReleaseIsHarmless ==
  api = "createMutex" =>
    /\ Cardinality(Holders) <= 1
    /\ Holders # {} => isLocked

\* ---------------------------------------------------------------------
\* C40  A function wrapped by withMutex releases the mutex when it throws
\* or rejects as well as when it succeeds: the failure reaches the caller
\* of the wrapper, the mutex is unlocked or handed to the longest waiting
\* caller by the same step, the mutex is locked only while a caller is
\* inside the wrapper, and every call that had to wait is granted.
\* ---------------------------------------------------------------------
LockedOnlyWhileInside ==
  api = "withMutex" =>
    /\ locked <=> Inside # {}
    /\ Cardinality(Inside) <= 1
    /\ queue # <<>> => locked

ReleasedOnEveryOutcome ==
  api = "withMutex" =>
    \A c \in Callers :
      (status[c] \in {"succeeded", "failed"} /\ status'[c] # status[c]) =>
        /\ status'[c] = (IF status[c] = "failed" THEN "rejected" ELSE "resolved")
        /\ IF queue = <<>>
             THEN ~locked'
             ELSE locked' /\ status'[Head(queue)] = "granted" /\ queue' = Tail(queue)

WaitingCallsAreGranted ==
  \A c \in Callers :
    (api = "withMutex" /\ status[c] = "waiting")
      ~> (status[c] \in {"resolved", "rejected"})

C40_WithMutexReleasesOnFailure ==
  /\ []LockedOnlyWhileInside
  /\ [][ReleasedOnEveryOutcome]_vars
  /\ WaitingCallsAreGranted

C40_Witness ==
  /\ api = "withMutex"
  /\ status[1] = "rejected"
  /\ status[2] = "holding"
  /\ rounds[2] = 1
  /\ status[3] = "waiting"
  /\ locked

====
